---- MODULE Spec2Model ----
(***************************************************************************)
(* A model of rcdgen, the RCD file generator of FreeRCT: the binary writer *)
(* (fileio.cpp), the block tree and its emission (nodes.cpp), the string   *)
(* tables and the node dispatcher (check_data.cpp) and the three phases of *)
(* main (main.cpp).                                                        *)
(*                                                                         *)
(* A FileBlock is modelled by its data: a sequence of bytes whose length   *)
(* is the block's length.  Each part of the program has a specification of *)
(* its own over the shared variables; the variables a specification does   *)
(* not use keep their initial value.                                       *)
(***************************************************************************)
EXTENDS Integers, Sequences, FiniteSets, TLC

VARIABLES
    blocks,     \* FileWriter::blocks: the stored blocks, in list order
    cand,       \* the FileBlock handed to the last AddBlock call
    pre_blocks, \* FileWriter::blocks as it was when the last call began
    ret,        \* value returned by the last AddBlock / Write call
    issued,     \* history: <<number returned by AddBlock, bytes it was returned for>>
    ncalls,     \* history: number of calls made on the writer
    op,         \* the last operation performed ("none" after construction)
    last_fb,    \* the FileBlock the last game block Write built (its bytes)
    child_sprs, \* the sprite images the last game block Write wrote, in call order
    child_rets, \* the values their SpriteBlock::Write calls returned
    end_ok,     \* whether no assertion of the last Write failed
    out_file,   \* content of the output file; NoFile while it does not exist
    main_pc,    \* main: "resolve" (CheckTree), "emit" (the loop over the files), "exit"
    root,       \* CheckTree: the root values converted so far, in input order
    cur_file,   \* ConvertFileNode: the file node being filled; NoNode outside it
    file_nodes, \* main: the list CheckTree returned
    resolved,   \* history: CheckTree has returned
    opened,     \* history: the names of the files opened for writing, in order
    out_files,  \* the file system: content of each output file, NoFile if absent
    exit_code,  \* exit code of the process; -1 while it runs
    diag,       \* the fatal diagnostic printed; NoDiag if none
    s_pc,       \* a strings node: "parse", "convert", "merge", "merged", "checked"
    s_in,       \* the string nodes of the strings node as parsed, in input order
    s_nodes,    \* the TextNodes PrepareNamedValues has converted so far
    s_next,     \* ConvertStringsNode: index of the next value of its loop
    s_texts,    \* Strings::texts of the strings node being built
    s_names,    \* the names handed to CheckTranslations
    s_pre,      \* history: Strings::texts when CheckTranslations was called
    d_node,     \* the node group last handed to ConvertNodeGroup; NoNode before
    d_builder,  \* the builder ConvertNodeGroup called for it; "none" if none
    v_pc,       \* a node body: "begin", "prepare" (PrepareNamedValues), "extract"
    v_node,     \* the node group being converted: name, line, symbols
    v_heap,     \* the Expression objects: the parsed ones and those Evaluate made
    v_field,    \* the named value PrepareNamedValues handled last
    v_vals,     \* Values::named_values
    v_pre,      \* history: Values::named_values before the last extraction
    v_got,      \* the last extraction: the call and what it returned
    sprite_image, \* a SpriteImage: data, data_size, width, height, xoffset, yoffset
    sp_call,    \* the last CopySprite call on it: arguments, sprite before, result
    sh_blk,     \* a SheetBlock: its fields and img_sheet; NoNode before it is built
    sh_loads,   \* history: the number of LoadFile calls made for the sheet
    sh_calls,   \* history: the GetSubNode calls made on the sheet, in order
    sh_assign,  \* the last AssignNames call: the name table and the entries made
    v_unnamed,  \* Values::unnamed_values
    c_node,     \* the node group with unnamed children handed to its builder
    c_out,      \* what the builder made of it, and the block written from it
    t_strs,     \* the text nodes of the Strings written last, in the set's order
    t_out,      \* what Strings::Write did with each of them
    px_read,    \* the last Image::GetPixel call: image, mask, position, result
    pb_state,        \* PathBuildManager::state
    selected_arrow,  \* PathBuildManager::selected_arrow
    selected_slope,  \* PathBuildManager::selected_slope
    allowed_arrows,  \* PathBuildManager::allowed_arrows
    allowed_slopes,  \* PathBuildManager::allowed_slopes
    pb_asserts       \* whether no assertion of ComputeArrowCursorPosition has failed

wvars == <<blocks, cand, pre_blocks, ret, issued, ncalls, op>>
evars == <<last_fb, child_sprs, child_rets, end_ok, out_file>>

mvars == <<main_pc, root, cur_file, file_nodes, resolved, opened, out_files, exit_code, diag>>

\* The variables of the specifications other than SpecWriter and SpecEmit.
svars == <<s_pc, s_in, s_nodes, s_next, s_texts, s_names, s_pre>>
dvars == <<d_node, d_builder>>
vvars == <<v_pc, v_node, v_heap, v_field, v_vals, v_pre, v_got>>
ivars == <<sprite_image, sp_call, sh_blk, sh_loads, sh_calls, sh_assign>>
tvars == <<t_strs, t_out>>
uvars == <<v_unnamed>>
cvars == <<c_node, c_out>>
pvars == <<px_read>>
bvars == <<pb_state, selected_arrow, selected_slope, allowed_arrows, allowed_slopes, pb_asserts>>
nvars == <<tvars, uvars, cvars, pvars, bvars>>

xvars == <<mvars, svars, dvars, vvars, ivars, nvars>>

vars == <<wvars, evars, xvars>>

NoFile == "no file"
NoNode == [class |-> "none"]
NoDiag == [kind |-> "none", lines |-> <<>>, strs |-> <<>>]

----------------------------------------------------------------------------
(* Bounds of the model.                                                    *)

\* Longest candidate block handed to AddBlock in SpecWriter.
MaxBlkLen == 2

\* Number of AddBlock calls made on the writer of SpecWriter.
MaxCalls == 4

\* Number of game blocks of the file node written in SpecEmit.
MaxGameBlocks == 2

\* Number of person graphics of a PRSG block, frames of an ANIM or ANSP block.
MaxEntries == 1

\* Number of values at the root of the input, of children of a file node.
MaxRoots == 2
MaxChildren == 2

\* Number of string nodes inside the strings node of SpecStrings.
MaxStrings == 3

\* Largest line number of a node group handed to the dispatcher in SpecDispatch.
MaxLine == 4

\* Number of named values in the node body of SpecValues, and of extractions
\* made from it.
MaxFields == 2
MaxGets == 2
MaxSubNodes == 3
MaxUnnamed == 1
MaxRecolours == 4
MaxKids == 8

\* Byte values the candidate blocks of SpecWriter are made of.
CandBytes == {0, 1}

RECURSIVE SeqsUpTo(_, _)
SeqsUpTo(S, n) ==
    IF n = 0 THEN {<<>>}
    ELSE LET shorter == SeqsUpTo(S, n - 1)
         IN  shorter \cup {Append(s, x) : s \in {t \in shorter : Len(t) = n - 1}, x \in S}

CandBlocks == SeqsUpTo(CandBytes, MaxBlkLen)

----------------------------------------------------------------------------
(* fileio.cpp                                                              *)

\* memcmp(a, b, n) == 0
MemEqual(a, b, n) == \A i \in 1..n : a[i] = b[i]

\* A comparison that forgets the content of the blocks.
FileBlockEq_LengthOnly(fb1, fb2) == Len(fb1) = Len(fb2)

\* operator==(const FileBlock &, const FileBlock &)
FileBlockEq(fb1, fb2) ==
    IF Len(fb1) # Len(fb2) THEN FALSE
    ELSE IF Len(fb1) = 0 THEN TRUE
    ELSE MemEqual(fb1, fb2, Len(fb1))

\* The loop of FileWriter::AddBlock, from list position idx on; the result
\* is the list afterwards and the returned index.
RECURSIVE AddBlockScan(_, _, _)
AddBlockScan(bl, blk, idx) ==
    IF idx > Len(bl) THEN [blocks |-> Append(bl, blk), ret |-> idx]
    ELSE IF FileBlockEq(bl[idx], blk) THEN [blocks |-> bl, ret |-> idx]
    ELSE AddBlockScan(bl, blk, idx + 1)

\* A writer that stores a new block in front of the list.
AddBlock_PushFront(bl, blk) ==
    LET r == AddBlockScan(bl, blk, 1)
    IN  IF Len(r.blocks) = Len(bl) THEN r
        ELSE [blocks |-> <<blk>> \o bl, ret |-> r.ret]

\* FileWriter::AddBlock
AddBlock(bl, blk) == AddBlockScan(bl, blk, 1)

\* The bytes FileBlock::Write hands to fwrite: nothing for an empty block.
FileBlock_Write(fb) == IF Len(fb) = 0 THEN <<>> ELSE fb

\* file_header of FileWriter::WriteFile: 'R', 'C', 'D', 'F', 1, 0, 0, 0
file_header == <<82, 67, 68, 70, 1, 0, 0, 0>>

\* The loop of FileWriter::WriteFile over the list, from position i on.
RECURSIVE WriteBlocksFrom(_, _)
WriteBlocksFrom(bl, i) ==
    IF i > Len(bl) THEN <<>>
    ELSE FileBlock_Write(bl[i]) \o WriteBlocksFrom(bl, i + 1)

\* A WriteFile that leaves out the version word of the header.
WriteFile_ShortHeader(bl) == SubSeq(file_header, 1, 4) \o WriteBlocksFrom(bl, 1)

\* FileWriter::WriteFile: the content of the file once fopen succeeded.
WriteFile(bl) == file_header \o WriteBlocksFrom(bl, 1)

----------------------------------------------------------------------------
(* The FileBlock save interface (declared in fileio.h): little-endian      *)
(* integers appended at save_index.  A block under construction is         *)
(* [data |-> bytes saved so far, length |-> 12 + payload length].          *)

RECURSIVE LE(_, _)
LE(v, n) == IF n = 0 THEN <<>> ELSE <<v % 256>> \o LE(v \div 256, n - 1)

\* Value of the little-endian unsigned integer at bytes at+1 .. at+n of b.
RECURSIVE DecodeLE(_, _, _)
DecodeLE(b, at, n) ==
    IF n = 0 THEN 0 ELSE b[at + 1] + 256 * DecodeLE(b, at + 1, n - 1)

\* The four characters of a block name.
TagBytes(name) ==
    CASE name = "8PXL" -> <<56, 80, 88, 76>>
      [] name = "TSEL" -> <<84, 83, 69, 76>>
      [] name = "TCOR" -> <<84, 67, 79, 82>>
      [] name = "SURF" -> <<83, 85, 82, 70>>
      [] name = "FUND" -> <<70, 85, 78, 68>>
      [] name = "PRSG" -> <<80, 82, 83, 71>>
      [] name = "ANIM" -> <<65, 78, 73, 77>>
      [] name = "ANSP" -> <<65, 78, 83, 80>>
      [] name = "PATH" -> <<80, 65, 84, 72>>
      [] name = "PLAT" -> <<80, 76, 65, 84>>
      [] name = "SUPP" -> <<83, 85, 80, 80>>
      [] name = "TEXT" -> <<84, 69, 88, 84>>
      [] name = "SHOP" -> <<83, 72, 79, 80>>
      [] name = "GBOR" -> <<71, 66, 79, 82>>
      [] name = "GCHK" -> <<71, 67, 72, 75>>
      [] name = "GSLI" -> <<71, 83, 76, 73>>
      [] name = "GSCL" -> <<71, 83, 67, 76>>
      [] name = "BDIR" -> <<66, 68, 73, 82>>
      [] name = "GSLP" -> <<71, 83, 76, 80>>

\* FileBlock::StartSave
StartSave(blk_name, version, data_length) ==
    [data   |-> TagBytes(blk_name) \o LE(version, 4) \o LE(data_length, 4),
     length |-> 12 + data_length]

\* FileBlock::SaveUInt8, SaveUInt16 / SaveInt16, SaveUInt32, SaveBytes
SaveUInt8(fb, d)  == [fb EXCEPT !.data = @ \o LE(d % 256, 1)]
SaveUInt16(fb, d) == [fb EXCEPT !.data = @ \o LE(d % 65536, 2)]
SaveInt16(fb, d)  == [fb EXCEPT !.data = @ \o LE(d % 65536, 2)]
SaveUInt32(fb, d) == [fb EXCEPT !.data = @ \o LE(d, 4)]
SaveBytes(fb, bytes) == [fb EXCEPT !.data = @ \o bytes]

\* FileBlock::CheckEndSave: the assertion that the block is full.
CheckEndSave(fb) == Len(fb.data) = fb.length

----------------------------------------------------------------------------
(* nodes.cpp: writing the block tree.  A Write in progress is the record   *)
(* [blocks |-> the writer's list, fb |-> the FileBlock being filled,       *)
(*  rets |-> the values the sprite children returned, in call order].      *)

SURFACE_COUNT == 19
FOUNDATION_COUNT == 6
PTS_COUNT == 51
PLA_COUNT == 14
SPP_COUNT == 24
COLOUR_COUNT == 18
LNG_COUNT == 3

\* The jump table part of SpriteBlock::Write (the loop over the rows).
RECURSIVE SaveJumpTable(_, _, _, _)
SaveJumpTable(fb, row_sizes, i, length) ==
    IF i > Len(row_sizes) THEN [fb |-> fb, length |-> length]
    ELSE IF row_sizes[i] = 0
         THEN SaveJumpTable(SaveUInt32(fb, 0), row_sizes, i + 1, length)
         ELSE SaveJumpTable(SaveUInt32(fb, length), row_sizes, i + 1, length + row_sizes[i])

\* The 8PXL block of a sprite image.
SpriteFileBlock(si) ==
    LET f0 == StartSave("8PXL", 2, 4 * 2 + 4 * si.height + Len(si.data))
        f1 == SaveUInt16(f0, si.width)
        f2 == SaveUInt16(f1, si.height)
        f3 == SaveUInt16(f2, si.xoffset)
        f4 == SaveUInt16(f3, si.yoffset)
        jt == SaveJumpTable(f4, si.row_sizes, 1, 4 * si.height)
    IN  SaveBytes(jt.fb, si.data)

\* A sprite writer that makes a block of an empty sprite too.
SpriteBlock_Write_NoEmptyCheck(bl, si) ==
    CHOOSE r \in {AddBlock(bl, fb.data) : fb \in {SpriteFileBlock(si)}} : TRUE

\* SpriteBlock::Write
SpriteBlock_Write(bl, si) ==
    IF Len(si.data) = 0 THEN [blocks |-> bl, ret |-> 0]
    ELSE CHOOSE r \in {AddBlock(bl, fb.data) : fb \in {SpriteFileBlock(si)}} : TRUE

\* Start of a game block's Write: new FileBlock, StartSave.
Begin(bl, blk_name, version, data_length) ==
    [blocks |-> bl, fb |-> StartSave(blk_name, version, data_length), rets |-> <<>>]

U8(st, d)  == [st EXCEPT !.fb = SaveUInt8(@, d)]
U16(st, d) == [st EXCEPT !.fb = SaveUInt16(@, d)]
I16(st, d) == [st EXCEPT !.fb = SaveInt16(@, d)]
U32(st, d) == [st EXCEPT !.fb = SaveUInt32(@, d)]

\* The Write in progress once a child's Write returned r and the value was saved.
SaveRef(st, r, is_sprite) ==
    [blocks |-> r.blocks, fb |-> SaveUInt32(st.fb, r.ret),
     rets |-> IF is_sprite THEN Append(st.rets, r.ret) ELSE st.rets]

\* fb->SaveUInt32(sprite->Write(fw))
\* (CHOOSE v \in {e(x) : x \in {d}} : TRUE is e(d), with d computed once.)
Spr(st, si) ==
    CHOOSE v \in {SaveRef(r[1], r[2], TRUE) :
                     r \in {<<s, SpriteBlock_Write(s.blocks, si)>> : s \in {st}}} : TRUE

\* The iterations lo..hi of for (i ...) fb->SaveUInt32(sprites[i]->Write(fw)),
\* in order: the first half of them, then the second half.
RECURSIVE SprsRange(_, _, _, _)
SprsRange(st, sprites, lo, hi) ==
    IF lo > hi THEN st
    ELSE IF lo = hi THEN Spr(st, sprites[lo])
    ELSE CHOOSE r \in {SprsRange(half, sprites, ((lo + hi) \div 2) + 1, hi) :
                          half \in {SprsRange(st, sprites, lo, (lo + hi) \div 2)}} : TRUE

\* for (i ...) fb->SaveUInt32(sprites[i]->Write(fw))
Sprs(st, sprites, i) == SprsRange(st, sprites, i, Len(sprites))

\* A game block writer that puts its own block in front of the list.
End_ParentFirst(st) ==
    CHOOSE v \in {[blocks |-> <<s.fb.data>> \o s.blocks, ret |-> 1, fb |-> s.fb.data,
                    rets |-> s.rets, end_ok |-> CheckEndSave(s.fb)] : s \in {st}} : TRUE

\* End of a game block's Write: fb->CheckEndSave(); return fw->AddBlock(fb);
End(st) ==
    CHOOSE v \in {[blocks |-> r[2].blocks, ret |-> r[2].ret, fb |-> r[1].fb.data,
                    rets |-> r[1].rets, end_ok |-> CheckEndSave(r[1].fb)] :
                     r \in {<<s, AddBlock(s.blocks, s.fb.data)>> : s \in {st}}} : TRUE

\* TSELBlock::Write
TSELBlock_Write(bl, b) ==
    End(Sprs(U16(U16(Begin(bl, "TSEL", 1, 92 - 12), b.tile_width), b.z_height),
             b.sprites, 1))

\* TCORBlock::Write
TCORBlock_Write(bl, b) ==
    LET s0 == U16(U16(Begin(bl, "TCOR", 1, 320 - 12), b.tile_width), b.z_height)
    IN  End(Sprs(Sprs(Sprs(Sprs(s0, b.north, 1), b.east, 1), b.south, 1), b.west, 1))

\* A SURF writer that saves the tile width before the surface type.
SURFBlock_Write_WidthFirst(bl, b) ==
    LET s0 == U16(U16(U16(Begin(bl, "SURF", 3, 94 - 12), b.tile_width), b.surf_type),
                  b.z_height)
    IN  End(Sprs(s0, b.sprites, 1))

\* SURFBlock::Write
SURFBlock_Write(bl, b) ==
    LET s0 == U16(U16(U16(Begin(bl, "SURF", 3, 94 - 12), b.surf_type), b.tile_width),
                  b.z_height)
    IN  End(Sprs(s0, b.sprites, 1))

\* FUNDBlock::Write
FUNDBlock_Write(bl, b) ==
    LET s0 == U16(U16(U16(Begin(bl, "FUND", 1, 42 - 12), b.found_type), b.tile_width),
                  b.z_height)
    IN  End(Sprs(s0, b.sprites, 1))

\* Recolouring::Encode
Recolouring_Encode(rc) == (rc.orig * 16777216) + (rc.replace % 16777216)

\* A FileBlock that holds the bytes saved into it and nothing before them.
NoBytes == [data |-> <<>>, length |-> 0]

\* The bytes the loop of PRSGBlock::Write saves for the person graphics
\* lo..hi, in order: those of the first half, then those of the second.
RECURSIVE PersonGraphicsBytes(_, _, _)
PersonGraphicsBytes(pgs, lo, hi) ==
    IF lo > hi THEN <<>>
    ELSE IF lo = hi
    THEN SaveUInt32(SaveUInt32(SaveUInt32(SaveUInt8(NoBytes, pgs[lo].person_type),
                                          Recolouring_Encode(pgs[lo].recol[1])),
                               Recolouring_Encode(pgs[lo].recol[2])),
                    Recolouring_Encode(pgs[lo].recol[3])).data
    ELSE PersonGraphicsBytes(pgs, lo, (lo + hi) \div 2)
         \o PersonGraphicsBytes(pgs, ((lo + hi) \div 2) + 1, hi)

\* PRSGBlock::Write
PRSGBlock_Write(bl, b) ==
    LET n == Len(b.person_graphics)
        s == U8(Begin(bl, "PRSG", 1, 1 + n * 13), n)
    IN  End([s EXCEPT !.fb = SaveBytes(@, PersonGraphicsBytes(b.person_graphics, 1, n))])

\* The bytes the loop of ANIMBlock::Write saves for the frames lo..hi, in
\* order: those of the first half, then those of the second.
RECURSIVE FramesBytes(_, _, _)
FramesBytes(frames, lo, hi) ==
    IF lo > hi THEN <<>>
    ELSE IF lo = hi
    THEN SaveInt16(SaveInt16(SaveUInt16(NoBytes, frames[lo].duration), frames[lo].change_x),
                   frames[lo].change_y).data
    ELSE FramesBytes(frames, lo, (lo + hi) \div 2)
         \o FramesBytes(frames, ((lo + hi) \div 2) + 1, hi)

\* ANIMBlock::Write
ANIMBlock_Write(bl, b) ==
    LET n  == Len(b.frames)
        s0 == U16(U16(U8(Begin(bl, "ANIM", 2, 1 + 2 + 2 + n * 6), b.person_type),
                      b.anim_type), n)
    IN  End([s0 EXCEPT !.fb = SaveBytes(@, FramesBytes(b.frames, 1, n))])

\* ANSPBlock::Write
ANSPBlock_Write(bl, b) ==
    LET n  == Len(b.frames)
        s0 == U16(U16(U8(U16(Begin(bl, "ANSP", 1, 2 + 1 + 2 + 2 + n * 4), b.tile_width),
                         b.person_type), b.anim_type), n)
    IN  End(Sprs(s0, b.frames, 1))

\* PATHBlock::Write
PATHBlock_Write(bl, b) ==
    LET s0 == U16(U16(U16(Begin(bl, "PATH", 1, 2 + 2 + 2 + PTS_COUNT * 4), b.path_type),
                      b.tile_width), b.z_height)
    IN  End(Sprs(s0, b.sprites, 1))

\* PLATBlock::Write
PLATBlock_Write(bl, b) ==
    LET s0 == U16(U16(U16(Begin(bl, "PLAT", 2, 2 + 2 + 2 + PLA_COUNT * 4), b.tile_width),
                      b.z_height), b.platform_type)
    IN  End(Sprs(s0, b.sprites, 1))

\* SUPPBlock::Write
SUPPBlock_Write(bl, b) ==
    LET s0 == U16(U16(U16(Begin(bl, "SUPP", 1, 2 + 2 + 2 + SPP_COUNT * 4), b.support_type),
                      b.tile_width), b.z_height)
    IN  End(Sprs(s0, b.sprites, 1))

\* _languages: LNG_DEFAULT, LNG_EN_GB, LNG_NL_NL (position i + 1 holds language i).
_languages == <<"", "en_GB", "nl_NL">>

\* The size of the text "long" of the model, a text that by itself nearly
\* fills the 65535 bytes a 16 bit length can state.
LongText == 65530

\* The characters of the strings of the model.
StrBytes(str) ==
    CASE str = ""      -> <<>>
      [] str = "en_GB" -> <<101, 110, 95, 71, 66>>
      [] str = "nl_NL" -> <<110, 108, 95, 78, 76>>
      [] str = "xx_XX" -> <<120, 120, 95, 88, 88>>
      [] str = "buy"   -> <<98, 117, 121>>
      [] str = "name"  -> <<110, 97, 109, 101>>
      [] str = "X"     -> <<88>>
      [] str = "Yy"    -> <<89, 121>>
      [] str = "long"  -> [i \in 1..LongText |-> 97]

\* strlen / std::string::size
StrSize(str) == Len(StrBytes(str))

\* Sum of f[i] for i in lo..hi.
RECURSIVE SumOver(_, _, _)
SumOver(f, lo, hi) == IF lo > hi THEN 0 ELSE f[lo] + SumOver(f, lo + 1, hi)

\* TextNode::GetSize
TextNode_GetSize(tn) ==
    2 + 1 + StrSize(tn.name) + 1
    + SumOver([i \in 1..LNG_COUNT |->
                  IF tn.lines[i] < 0 THEN 0
                  ELSE 2 + (1 + StrSize(_languages[i]) + 1) + StrSize(tn.texts[i]) + 1],
              1, LNG_COUNT)

\* One language block of TextNode::Write; w is [fb, length].
SaveLanguage(w, lname, text) ==
    LET lname_length == StrSize(lname)
        lng_size == 2 + (1 + lname_length + 1) + StrSize(text) + 1
        f1 == SaveUInt16(w.fb, lng_size)
        f2 == SaveUInt8(f1, lname_length + 1)
        f3 == SaveBytes(f2, StrBytes(lname))
        f4 == SaveUInt8(f3, 0)
        f5 == SaveBytes(f4, StrBytes(text))
        f6 == SaveUInt8(f5, 0)
    IN  [fb |-> f6, length |-> w.length - (2 + 1 + lname_length + 1) - (StrSize(text) + 1)]

\* The loop of TextNode::Write over the languages 1 .. LNG_COUNT - 1 (i is
\* the position in _languages).
RECURSIVE SaveTranslations(_, _, _)
SaveTranslations(w, tn, i) ==
    IF i > LNG_COUNT THEN w
    ELSE IF tn.lines[i] < 0 THEN SaveTranslations(w, tn, i + 1)
    ELSE SaveTranslations(SaveLanguage(w, _languages[i], tn.texts[i]), tn, i + 1)

\* TextNode::Write: the block afterwards, the value of length at the final
\* assertion, and whether the three assertions held.
TextNode_Write(fb, tn) ==
    LET length == TextNode_GetSize(tn)
        f1 == SaveUInt16(fb, length)
        f2 == SaveUInt8(f1, StrSize(tn.name) + 1)
        f3 == SaveBytes(f2, StrBytes(tn.name))
        f4 == SaveUInt8(f3, 0)
        w0 == [fb |-> f4, length |-> length - 2 - (1 + StrSize(tn.name) + 1)]
        w1 == SaveTranslations(w0, tn, 2)
        w2 == SaveLanguage(w1, "", tn.texts[1])
    IN  [fb |-> w2.fb, length |-> w2.length,
         asserts |-> /\ StrSize(tn.name) + 1 < 256
                     /\ tn.lines[1] >= 0
                     /\ w2.length = 0]

\* Lexicographic order of two byte strings (std::string's operator<).
RECURSIVE BytesLess(_, _)
BytesLess(a, b) ==
    IF Len(b) = 0 THEN FALSE
    ELSE IF Len(a) = 0 THEN TRUE
    ELSE IF a[1] # b[1] THEN a[1] < b[1]
    ELSE BytesLess(Tail(a), Tail(b))

\* The order of a std::set<TextNode>: by name.
TextNodeLess(t1, t2) == BytesLess(StrBytes(t1.name), StrBytes(t2.name))

\* The text nodes of a set in the order its iteration visits them.
RECURSIVE InOrder(_)
InOrder(texts) ==
    IF texts = {} THEN <<>>
    ELSE LET first == CHOOSE t \in texts : \A u \in texts : ~TextNodeLess(u, t)
         IN  <<first>> \o InOrder(texts \ {first})

\* The second loop of Strings::Write.
RECURSIVE WriteTextNodes(_, _, _)
WriteTextNodes(fb, tns, i) ==
    IF i > Len(tns) THEN [fb |-> fb, asserts |-> TRUE]
    ELSE LET w == TextNode_Write(fb, tns[i])
             r == WriteTextNodes(w.fb, tns, i + 1)
         IN  [fb |-> r.fb, asserts |-> w.asserts /\ r.asserts]

\* Strings::Write
Strings_Write(bl, strs) ==
    LET tns    == InOrder(strs.texts)
        length == SumOver([i \in 1..Len(tns) |-> TextNode_GetSize(tns[i])], 1, Len(tns))
        w      == WriteTextNodes(StartSave("TEXT", 1, length), tns, 1)
        r      == AddBlock(bl, w.fb.data)
    IN  [blocks |-> r.blocks, ret |-> r.ret, fb |-> w.fb.data,
         end_ok |-> CheckEndSave(w.fb) /\ w.asserts]

\* fb->SaveUInt32(strings->Write(fw))
Txt(st, strs) ==
    CHOOSE v \in {SaveRef(r[1], r[2], FALSE) :
                     r \in {<<s, Strings_Write(s.blocks, strs)>> : s \in {st}}} : TRUE

\* A SHOPBlock::Write that declares the size of the whole block.
SHOPBlock_Write_WholeSize(bl, b) ==
    LET s0 == U8(U8(U16(Begin(bl, "SHOP", 4, 66), b.tile_width), b.height), b.flags)
        s1 == Spr(Spr(Spr(Spr(s0, b.ne_view), b.se_view), b.sw_view), b.nw_view)
        s2 == U32(U32(U32(s1, Recolouring_Encode(b.recol[1])),
                      Recolouring_Encode(b.recol[2])), Recolouring_Encode(b.recol[3]))
        s3 == U32(U32(U32(U32(s2, b.item_cost[1]), b.item_cost[2]), b.ownership_cost),
                  b.opened_cost)
        s4 == U8(U8(s3, b.item_type[1]), b.item_type[2])
    IN  End(Txt(s4, b.shop_text))

\* SHOPBlock::Write
SHOPBlock_Write(bl, b) ==
    LET s0 == U8(U8(U16(Begin(bl, "SHOP", 4, 66 - 12), b.tile_width), b.height), b.flags)
        s1 == Spr(Spr(Spr(Spr(s0, b.ne_view), b.se_view), b.sw_view), b.nw_view)
        s2 == U32(U32(U32(s1, Recolouring_Encode(b.recol[1])),
                      Recolouring_Encode(b.recol[2])), Recolouring_Encode(b.recol[3]))
        s3 == U32(U32(U32(U32(s2, b.item_cost[1]), b.item_cost[2]), b.ownership_cost),
                  b.opened_cost)
        s4 == U8(U8(s3, b.item_type[1]), b.item_type[2])
    IN  End(Txt(s4, b.shop_text))

\* GBORBlock::Write
GBORBlock_Write(bl, b) ==
    LET s0 == U16(Begin(bl, "GBOR", 1, 58 - 12), b.widget_type)
        s1 == U8(U8(U8(U8(s0, b.border_top), b.border_left), b.border_right),
                 b.border_bottom)
        s2 == U8(U8(U8(U8(s1, b.min_width), b.min_height), b.h_stepsize), b.v_stepsize)
    IN  End(Sprs(s2, <<b.tl, b.tm, b.tr, b.ml, b.mm, b.mr, b.bl, b.bm, b.br>>, 1))

\* GCHKBlock::Write
GCHKBlock_Write(bl, b) ==
    End(Sprs(U16(Begin(bl, "GCHK", 1, 38 - 12), b.widget_type),
             <<b.empty, b.filled, b.empty_pressed, b.filled_pressed,
               b.shaded_empty, b.shaded_filled>>, 1))

\* GSLIBlock::Write
GSLIBlock_Write(bl, b) ==
    LET s0 == U16(U8(U8(U8(Begin(bl, "GSLI", 1, 33 - 12), b.min_length), b.step_size),
                     b.width), b.widget_type)
    IN  End(Sprs(s0, <<b.left, b.middle, b.right, b.slider>>, 1))

\* GSCLBlock::Write
GSCLBlock_Write(bl, b) ==
    LET s0 == U16(U8(U8(U8(U8(Begin(bl, "GSCL", 1, 70 - 12), b.min_length), b.step_back),
                        b.min_bar_length), b.bar_step), b.widget_type)
    IN  End(Sprs(s0, <<b.left_button, b.right_button, b.left_pressed, b.right_pressed,
                       b.left_bottom, b.middle_bottom, b.right_bottom,
                       b.left_top, b.middle_top, b.right_top,
                       b.left_top_pressed, b.middle_top_pressed, b.right_top_pressed>>, 1))

\* BDIRBlock::Write
BDIRBlock_Write(bl, b) ==
    End(Sprs(U16(Begin(bl, "BDIR", 1, 30 - 12), b.tile_width),
             <<b.sprite_ne, b.sprite_se, b.sprite_sw, b.sprite_nw>>, 1))

\* GSLPBlock::Write
GSLPBlock_Write(bl, b) ==
    LET s0 == Sprs(Begin(bl, "GSLP", 4, 68 - 12),
                   <<b.vert_down, b.steep_down, b.gentle_down, b.level, b.gentle_up,
                     b.steep_up, b.vert_up, b.pos_2d, b.neg_2d, b.pos_3d, b.neg_3d,
                     b.close_button, b.terraform_dot>>, 1)
    IN  End(Txt(s0, b.gui_text))

\* GameBlock::Write, dispatched on the block's class.
GameBlock_Write(bl, b) ==
    CASE b.tag = "TSEL" -> TSELBlock_Write(bl, b)
      [] b.tag = "TCOR" -> TCORBlock_Write(bl, b)
      [] b.tag = "SURF" -> SURFBlock_Write(bl, b)
      [] b.tag = "FUND" -> FUNDBlock_Write(bl, b)
      [] b.tag = "PRSG" -> PRSGBlock_Write(bl, b)
      [] b.tag = "ANIM" -> ANIMBlock_Write(bl, b)
      [] b.tag = "ANSP" -> ANSPBlock_Write(bl, b)
      [] b.tag = "PATH" -> PATHBlock_Write(bl, b)
      [] b.tag = "PLAT" -> PLATBlock_Write(bl, b)
      [] b.tag = "SUPP" -> SUPPBlock_Write(bl, b)
      [] b.tag = "SHOP" -> SHOPBlock_Write(bl, b)
      [] b.tag = "GBOR" -> GBORBlock_Write(bl, b)
      [] b.tag = "GCHK" -> GCHKBlock_Write(bl, b)
      [] b.tag = "GSLI" -> GSLIBlock_Write(bl, b)
      [] b.tag = "GSCL" -> GSCLBlock_Write(bl, b)
      [] b.tag = "BDIR" -> BDIRBlock_Write(bl, b)
      [] b.tag = "GSLP" -> GSLPBlock_Write(bl, b)

----------------------------------------------------------------------------
(* SpecWriter: any sequence of AddBlock calls on one FileWriter.           *)

\* Nothing has been emitted.
EmitIdle ==
    /\ last_fb = <<>>
    /\ child_sprs = <<>>
    /\ child_rets = <<>>
    /\ end_ok = TRUE
    /\ out_file = NoFile

\* The names of the output files of the model.
FileNames == {"a.rcd", "b.rcd"}

\* main has not started.
MainIdle ==
    /\ main_pc = "resolve"
    /\ root = <<>>
    /\ cur_file = NoNode
    /\ file_nodes = <<>>
    /\ resolved = FALSE
    /\ opened = <<>>
    /\ out_files = [n \in FileNames |-> NoFile]
    /\ exit_code = -1
    /\ diag = NoDiag

\* No strings node has been parsed.
StringsIdle ==
    /\ s_pc = "parse"
    /\ s_in = <<>>
    /\ s_nodes = <<>>
    /\ s_next = 1
    /\ s_texts = {}
    /\ s_names = <<>>
    /\ s_pre = {}

\* ConvertNodeGroup has not been called.
DispatchIdle ==
    /\ d_node = NoNode
    /\ d_builder = "none"

\* No node body is being converted.
ValuesIdle ==
    /\ v_pc = "begin"
    /\ v_node = NoNode
    /\ v_heap = <<>>
    /\ v_field = NoNode
    /\ v_vals = <<>>
    /\ v_pre = <<>>
    /\ v_got = NoNode
    /\ v_unnamed = <<>>

\* A null pointer to data.
Null == <<"nullptr">>

\* SpriteImage::SpriteImage (xoffset and yoffset are not set by it and are
\* not read before CopySprite sets them); no sheet, no call yet.
ImageIdle ==
    /\ sprite_image = [data |-> Null, data_size |-> 0, width |-> 0, height |-> 0,
                       xoffset |-> 0, yoffset |-> 0]
    /\ sp_call = NoNode
    /\ sh_blk = NoNode
    /\ sh_loads = 0
    /\ sh_calls = <<>>
    /\ sh_assign = NoNode

\* No Strings has been written.
TextIdle ==
    /\ t_strs = <<>>
    /\ t_out = <<>>

\* No node with children has been converted.
ContainerIdle ==
    /\ c_node = NoNode
    /\ c_out = NoNode

\* No pixel has been read through Image::GetPixel.
PixelIdle == px_read = NoNode

\* The states of the path build interaction, in their order.
PBS_IDLE == 0
PBS_WAIT_VOXEL == 1
PBS_WAIT_ARROW == 2
PBS_WAIT_SLOPE == 3
PBS_WAIT_BUY == 4

\* The edges of a tile, and no edge.
EDGE_NE == 0
EDGE_SE == 1
EDGE_SW == 2
EDGE_NW == 3
EDGE_COUNT == 4
INVALID_EDGE == 255

\* The slopes of a path, and no slope.
TSL_DOWN == 0
TSL_FLAT == 1
TSL_UP == 2
TSL_COUNT_GENTLE == 3
TSL_INVALID == 255

\* PathBuildManager::PathBuildManager on the global _path_builder, whose
\* other fields are zero.
PathIdle ==
    /\ pb_state = PBS_IDLE
    /\ selected_arrow = INVALID_EDGE
    /\ selected_slope = TSL_INVALID
    /\ allowed_arrows = 0
    /\ allowed_slopes = 0
    /\ pb_asserts = TRUE

\* A fresh FileWriter: no blocks.
WriterInit ==
    /\ blocks = <<>>
    /\ cand = <<>>
    /\ pre_blocks = <<>>
    /\ ret = 0
    /\ issued = {}
    /\ ncalls = 0
    /\ op = "none"
    /\ EmitIdle
    /\ MainIdle
    /\ StringsIdle
    /\ DispatchIdle
    /\ ValuesIdle
    /\ ImageIdle
    /\ TextIdle
    /\ ContainerIdle
    /\ PixelIdle
    /\ PathIdle

CallAddBlock(blk) ==
    /\ ncalls < MaxCalls
    /\ ncalls' = ncalls + 1
    /\ LET r == AddBlock(blocks, blk)
       IN  /\ blocks' = r.blocks
           /\ ret' = r.ret
           /\ issued' = issued \cup {<<r.ret, blk>>}
    /\ cand' = blk
    /\ pre_blocks' = blocks
    /\ op' = "AddBlock"
    /\ UNCHANGED <<evars, xvars>>

WriterNext == \E blk \in CandBlocks : CallAddBlock(blk)

SpecWriter == WriterInit /\ [][WriterNext]_vars

----------------------------------------------------------------------------
(* Claims about the writer.                                                *)

\* Positions of pre_blocks whose bytes equal the candidate's.
MatchesOfCand == {i \in 1..Len(pre_blocks) : pre_blocks[i] = cand}

\* C1: an AddBlock call whose candidate has the bytes of a stored block
\* returns the 1-based position of the first such block and leaves the list
\* as it was; any other call appends the candidate and returns the new
\* length of the list.
C1_AddBlockContract ==
    op = "AddBlock" =>
        IF MatchesOfCand # {}
        THEN /\ ret \in MatchesOfCand
             /\ \A i \in MatchesOfCand : ret <= i
             /\ blocks = pre_blocks
        ELSE /\ blocks = Append(pre_blocks, cand)
             /\ ret = Len(blocks)

\* C1 witness: a call found its candidate at position 2 of a longer list.
C1_Witness ==
    /\ op = "AddBlock"
    /\ Len(pre_blocks) = 3
    /\ pre_blocks[2] = cand
    /\ Len(cand) = 2
    /\ ret = 2

\* C4: the stored blocks are pairwise distinct, every number AddBlock ever
\* returned still denotes the bytes it was returned for, and the blocks
\* were appended under the numbers 1, 2, 3, ...
C4_StoredBlocksStable ==
    /\ \A i, j \in 1..Len(blocks) : blocks[i] = blocks[j] => i = j
    /\ \A p \in issued : p[1] \in 1..Len(blocks) /\ blocks[p[1]] = p[2]
    /\ \A i \in 1..Len(blocks) : <<i, blocks[i]>> \in issued
    /\ (op = "AddBlock" /\ Len(blocks) > Len(pre_blocks)) =>
           /\ ret = Len(pre_blocks) + 1
           /\ \A i \in 1..Len(pre_blocks) : blocks[i] = pre_blocks[i]

\* C4 witness: three blocks stored, then a call that stored nothing new.
C4_Witness ==
    /\ Len(blocks) = 3
    /\ op = "AddBlock"
    /\ blocks = pre_blocks
    /\ Cardinality(issued) = 3

----------------------------------------------------------------------------
(* SpecEmit: phase 3 of main for one file node.  A FileWriter is made, the *)
(* game blocks of the node are written one after the other                 *)
(* (FileNode::Write), then WriteFile makes the output file.  The game      *)
(* blocks are those the resolver can build from a few sprite images.       *)

\* Sprite images as the sprite cutter leaves them: no data at all, one
\* pixel, and three rows of one pixel with a transparent row in between.
NoSprite == [width |-> 0, height |-> 0, xoffset |-> 0, yoffset |-> 0,
             row_sizes |-> <<>>, data |-> <<>>]
SpriteA  == [width |-> 1, height |-> 1, xoffset |-> -32, yoffset |-> 0,
             row_sizes |-> <<3>>, data |-> <<128, 1, 5>>]
SpriteB  == [width |-> 1, height |-> 3, xoffset |-> 0, yoffset |-> 7,
             row_sizes |-> <<3, 0, 3>>, data |-> <<128, 1, 7, 128, 1, 9>>]

SpritePool == <<NoSprite, SpriteA, SpriteB>>

\* The sprites of a block with n sprites: none, A, B, A, none, A, B, A, ...
\* so that a block has both empty and repeated sprites.
Pattern == <<1, 2, 3, 2>>

Sprites(n) == [i \in 1..n |-> SpritePool[Pattern[((i - 1) % Len(Pattern)) + 1]]]

NoRecolour == [orig |-> COLOUR_COUNT, replace |-> 0]

\* A strings node with one name; with translation it has an en_GB text too.
OneString(translated) ==
    [texts |-> {[name  |-> "name",
                 lines |-> <<3, IF translated THEN 4 ELSE -1, -1>>,
                 texts |-> <<"X", IF translated THEN "Yy" ELSE "", "">>]}]

SurfaceBlock(tag) ==
    [tag |-> tag, surf_type |-> 17, found_type |-> 16, path_type |-> 16,
     platform_type |-> 16, support_type |-> 16, tile_width |-> 64, z_height |-> 16,
     sprites |-> Sprites(CASE tag = "TSEL" -> SURFACE_COUNT
                                [] tag = "SURF" -> SURFACE_COUNT
                                [] tag = "FUND" -> FOUNDATION_COUNT
                                [] tag = "PATH" -> PTS_COUNT
                                [] tag = "PLAT" -> PLA_COUNT
                                [] tag = "SUPP" -> SPP_COUNT)]

CornerBlock ==
    [tag |-> "TCOR", tile_width |-> 64, z_height |-> 16,
     north |-> Sprites(SURFACE_COUNT), east |-> Sprites(SURFACE_COUNT),
     south |-> Sprites(SURFACE_COUNT), west |-> Sprites(SURFACE_COUNT)]

PersonBlock(n) ==
    [tag |-> "PRSG",
     person_graphics |->
         [i \in 1..n |-> [person_type |-> 8 * i,
                          recol |-> <<[orig |-> 3, replace |-> 16777216 + 5],
                                      NoRecolour, NoRecolour>>]]]

AnimBlock(n) ==
    [tag |-> "ANIM", person_type |-> 8, anim_type |-> 300,
     frames |-> [i \in 1..n |-> [duration |-> 100 * i, change_x |-> -1, change_y |-> 2]]]

AnimSpritesBlock(n) ==
    [tag |-> "ANSP", tile_width |-> 64, person_type |-> 8, anim_type |-> 1,
     frames |-> Sprites(n)]

ShopBlock(translated) ==
    LET v == Sprites(4)
    IN  [tag |-> "SHOP", tile_width |-> 64, height |-> 2, flags |-> 3,
         ne_view |-> v[1], se_view |-> v[2], sw_view |-> v[3], nw_view |-> v[4],
         recol |-> <<[orig |-> 3, replace |-> 5], NoRecolour, NoRecolour>>,
         item_cost |-> <<100, 70000>>, ownership_cost |-> 1, opened_cost |-> 2,
         item_type |-> <<8, 24>>, shop_text |-> OneString(translated)]

WidgetBlock(tag, translated) ==
    LET v == Sprites(13)
    IN  [tag |-> tag, widget_type |-> 300, tile_width |-> 64,
         border_top |-> 1, border_left |-> 2, border_right |-> 3, border_bottom |-> 4,
         min_width |-> 5, min_height |-> 6, h_stepsize |-> 7, v_stepsize |-> 8,
         min_length |-> 9, step_size |-> 10, width |-> 11, step_back |-> 12,
         min_bar_length |-> 13, bar_step |-> 14,
         tl |-> v[1], tm |-> v[2], tr |-> v[3], ml |-> v[4], mm |-> v[5], mr |-> v[6],
         bl |-> v[7], bm |-> v[8], br |-> v[9],
         empty |-> v[1], filled |-> v[2], empty_pressed |-> v[3],
         filled_pressed |-> v[4], shaded_empty |-> v[5], shaded_filled |-> v[6],
         left |-> v[1], middle |-> v[2], right |-> v[3], slider |-> v[4],
         left_button |-> v[1], right_button |-> v[2], left_pressed |-> v[3],
         right_pressed |-> v[4], left_bottom |-> v[5], middle_bottom |-> v[6],
         right_bottom |-> v[7], left_top |-> v[8], middle_top |-> v[9],
         right_top |-> v[10], left_top_pressed |-> v[11], middle_top_pressed |-> v[12],
         right_top_pressed |-> v[13],
         sprite_ne |-> v[1], sprite_se |-> v[2], sprite_sw |-> v[3], sprite_nw |-> v[4],
         vert_down |-> v[1], steep_down |-> v[2], gentle_down |-> v[3], level |-> v[4],
         gentle_up |-> v[5], steep_up |-> v[6], vert_up |-> v[7], pos_2d |-> v[8],
         neg_2d |-> v[9], pos_3d |-> v[10], neg_3d |-> v[11], close_button |-> v[12],
         terraform_dot |-> v[13], gui_text |-> OneString(translated)]

\* The sprite children of a game block in the order its Write writes them.
SpriteChildren(b) ==
    CASE b.tag \in {"TSEL", "SURF", "FUND", "PATH", "PLAT", "SUPP"} -> b.sprites
      [] b.tag = "TCOR" -> b.north \o b.east \o b.south \o b.west
      [] b.tag = "ANSP" -> b.frames
      [] b.tag = "SHOP" -> <<b.ne_view, b.se_view, b.sw_view, b.nw_view>>
      [] b.tag = "GBOR" -> <<b.tl, b.tm, b.tr, b.ml, b.mm, b.mr, b.bl, b.bm, b.br>>
      [] b.tag = "GCHK" -> <<b.empty, b.filled, b.empty_pressed, b.filled_pressed,
                             b.shaded_empty, b.shaded_filled>>
      [] b.tag = "GSLI" -> <<b.left, b.middle, b.right, b.slider>>
      [] b.tag = "GSCL" -> <<b.left_button, b.right_button, b.left_pressed,
                             b.right_pressed, b.left_bottom, b.middle_bottom,
                             b.right_bottom, b.left_top, b.middle_top, b.right_top,
                             b.left_top_pressed, b.middle_top_pressed,
                             b.right_top_pressed>>
      [] b.tag = "BDIR" -> <<b.sprite_ne, b.sprite_se, b.sprite_sw, b.sprite_nw>>
      [] b.tag = "GSLP" -> <<b.vert_down, b.steep_down, b.gentle_down, b.level,
                             b.gentle_up, b.steep_up, b.vert_up, b.pos_2d, b.neg_2d,
                             b.pos_3d, b.neg_3d, b.close_button, b.terraform_dot>>
      [] OTHER -> <<>>

EmitInit == WriterInit

\* One iteration of the loop of FileNode::Write: (*iter)->Write(fw).
WriteGameBlock(b) ==
    /\ out_file = NoFile
    /\ ncalls < MaxGameBlocks
    /\ ncalls' = ncalls + 1
    /\ \E r \in {GameBlock_Write(blocks, b)} :
           /\ blocks' = r.blocks
           /\ ret' = r.ret
           /\ last_fb' = r.fb
           /\ child_rets' = r.rets
           /\ end_ok' = r.end_ok
    /\ child_sprs' = SpriteChildren(b)
    /\ pre_blocks' = blocks
    /\ op' = b.tag
    /\ UNCHANGED <<cand, issued, out_file, xvars>>

\* fw.WriteFile(file_name) with fopen succeeding.
CallWriteFile ==
    /\ out_file = NoFile
    /\ out_file' = WriteFile(blocks)
    /\ op' = "WriteFile"
    /\ UNCHANGED <<blocks, cand, pre_blocks, ret, issued, ncalls,
                   last_fb, child_sprs, child_rets, end_ok, xvars>>

EmitNext ==
    \/ WriteGameBlock(SurfaceBlock("TSEL"))
    \/ WriteGameBlock(CornerBlock)
    \/ WriteGameBlock(SurfaceBlock("SURF"))
    \/ WriteGameBlock(SurfaceBlock("FUND"))
    \/ \E n \in {0, MaxEntries} : WriteGameBlock(PersonBlock(n))
    \/ \E n \in {0, MaxEntries} : WriteGameBlock(AnimBlock(n))
    \/ \E n \in {0, MaxEntries + 2} : WriteGameBlock(AnimSpritesBlock(n))
    \/ WriteGameBlock(SurfaceBlock("PATH"))
    \/ WriteGameBlock(SurfaceBlock("PLAT"))
    \/ WriteGameBlock(SurfaceBlock("SUPP"))
    \/ WriteGameBlock(ShopBlock(TRUE))
    \/ WriteGameBlock(WidgetBlock("GBOR", FALSE))
    \/ WriteGameBlock(WidgetBlock("GCHK", FALSE))
    \/ WriteGameBlock(WidgetBlock("GSLI", FALSE))
    \/ WriteGameBlock(WidgetBlock("GSCL", FALSE))
    \/ WriteGameBlock(WidgetBlock("BDIR", FALSE))
    \/ WriteGameBlock(WidgetBlock("GSLP", FALSE))
    \/ CallWriteFile

SpecEmit == EmitInit /\ [][EmitNext]_vars

----------------------------------------------------------------------------
(* Reading a stored block back: its name and the places of the block       *)
(* numbers in it, as the Write of its class laid them out.                 *)

BlockNames == {"8PXL", "TSEL", "TCOR", "SURF", "FUND", "PRSG", "ANIM", "ANSP", "PATH",
               "PLAT", "SUPP", "TEXT", "SHOP", "GBOR", "GCHK", "GSLI", "GSCL", "BDIR",
               "GSLP"}

GameBlockNames == BlockNames \ {"8PXL", "TEXT"}

\* The name in the first four bytes of a block.
NameOf(b) == CHOOSE name \in BlockNames : TagBytes(name) = SubSeq(b, 1, 4)

\* n offsets, four bytes apart, the first at payload offset first.
Fields(first, n) == [k \in 1..n |-> 12 + first + 4 * (k - 1)]

\* Offsets in the block of the sprite block numbers, in the order written.
SpriteRefOffsets(b) ==
    LET name == NameOf(b)
    IN  CASE name = "TSEL" -> Fields(4, SURFACE_COUNT)
          [] name = "TCOR" -> Fields(4, 4 * SURFACE_COUNT)
          [] name = "SURF" -> Fields(6, SURFACE_COUNT)
          [] name = "FUND" -> Fields(6, FOUNDATION_COUNT)
          [] name = "PATH" -> Fields(6, PTS_COUNT)
          [] name = "PLAT" -> Fields(6, PLA_COUNT)
          [] name = "SUPP" -> Fields(6, SPP_COUNT)
          [] name = "ANSP" -> Fields(7, DecodeLE(b, 12 + 5, 2))
          [] name = "SHOP" -> Fields(4, 4)
          [] name = "GBOR" -> Fields(10, 9)
          [] name = "GCHK" -> Fields(2, 6)
          [] name = "GSLI" -> Fields(5, 4)
          [] name = "GSCL" -> Fields(6, 13)
          [] name = "BDIR" -> Fields(2, 4)
          [] name = "GSLP" -> Fields(0, 13)
          [] OTHER -> <<>>

\* Offsets in the block of the numbers of text blocks.
TextRefOffsets(b) ==
    LET name == NameOf(b)
    IN  CASE name = "SHOP" -> Fields(50, 1)
          [] name = "GSLP" -> Fields(52, 1)
          [] OTHER -> <<>>

RefOffsets(b) == SpriteRefOffsets(b) \o TextRefOffsets(b)

\* The block numbers stored in block b.
BlockRefs(b) == {DecodeLE(b, RefOffsets(b)[k], 4) : k \in 1..Len(RefOffsets(b))}

(* C2: in every file writer state reached while a file node is written,    *)
(* every non-zero block number stored in the block at position n of the    *)
(* list is a number r with 1 <= r < n: a block only refers to blocks       *)
(* stored before it, for every game block type and also when children or   *)
(* the block itself were found by the duplicate search.                    *)
C2_RefsPointBackwards ==
    \A n \in 1..Len(blocks) :
        \A r \in BlockRefs(blocks[n]) : r # 0 => (1 <= r /\ r < n)

\* The second game block of the file found all its sprites stored already
\* and was itself appended, holding their numbers.
C2_Witness ==
    /\ op \in GameBlockNames
    /\ ncalls = 2
    /\ Len(pre_blocks) >= 3
    /\ Len(blocks) = Len(pre_blocks) + 1
    /\ ret = Len(blocks)
    /\ \E r \in BlockRefs(blocks[ret]) : r # 0 /\ r < Len(pre_blocks)

(* C3: after a game block was written, each sprite child returned 0 iff    *)
(* its image has no data, and then no block was stored for it; otherwise   *)
(* it returned the number (at least 1) of the stored 8PXL block of the     *)
(* image; the parent holds exactly the returned value in the child's       *)
(* field.                                                                  *)
C3_SpriteNumberStored ==
    op \in GameBlockNames =>
        /\ Len(child_rets) = Len(child_sprs)
        /\ Len(SpriteRefOffsets(last_fb)) = Len(child_sprs)
        /\ \A i \in 1..Len(child_sprs) :
              /\ (Len(child_sprs[i].data) = 0) <=> (child_rets[i] = 0)
              /\ child_rets[i] # 0 =>
                    /\ child_rets[i] \in 1..Len(blocks)
                    /\ blocks[child_rets[i]] = SpriteFileBlock(child_sprs[i]).data
              /\ DecodeLE(last_fb, SpriteRefOffsets(last_fb)[i], 4) = child_rets[i]
        /\ \A n \in (Len(pre_blocks) + 1)..Len(blocks) :
              NameOf(blocks[n]) = "8PXL" =>
                  \E i \in 1..Len(child_sprs) :
                      /\ Len(child_sprs[i].data) # 0
                      /\ blocks[n] = SpriteFileBlock(child_sprs[i]).data

\* A SURF block was written whose sprites are partly empty, partly not.
C3_Witness ==
    /\ op = "SURF"
    /\ ret = Len(blocks)
    /\ \E i, j \in 1..Len(child_rets) :
          /\ child_rets[i] = 0 /\ Len(child_sprs[i].data) = 0
          /\ child_rets[j] >= 1 /\ Len(child_sprs[j].data) > 0

\* Sum of the lengths of the first n blocks of the list.
RECURSIVE LengthsBefore(_, _)
LengthsBefore(bl, n) == IF n = 0 THEN 0 ELSE LengthsBefore(bl, n - 1) + Len(bl[n])

(* C5: the file WriteFile made is the 8 bytes 52 43 44 46 01 00 00 00      *)
(* followed by every stored block once, in list order, and nothing else;   *)
(* for a file node without blocks it is exactly those 8 bytes.             *)
C5_FileIsHeaderThenBlocks ==
    op = "WriteFile" =>
        /\ out_file # NoFile
        /\ Len(out_file) = 8 + LengthsBefore(blocks, Len(blocks))
        /\ SubSeq(out_file, 1, 8) = <<82, 67, 68, 70, 1, 0, 0, 0>>
        /\ \A n \in 1..Len(blocks) :
              SubSeq(out_file, 8 + LengthsBefore(blocks, n - 1) + 1,
                     8 + LengthsBefore(blocks, n)) = blocks[n]
        /\ blocks = <<>> => out_file = <<82, 67, 68, 70, 1, 0, 0, 0>>

\* A file with several blocks was made.
C5_Witness ==
    /\ op = "WriteFile"
    /\ out_file # NoFile
    /\ Len(blocks) >= 3
    /\ Len(out_file) > 8

\* C28: for every block written - game blocks, sprite blocks, text blocks -
\* the bytes saved after StartSave are as many as the length given to it:
\* no CheckEndSave fails, and the length field of the header of every
\* stored block is the size of the payload after it.
C28_PayloadIsDeclaredLength ==
    /\ end_ok
    /\ last_fb # <<>> => DecodeLE(last_fb, 8, 4) = Len(last_fb) - 12
    /\ \A i \in 1..Len(blocks) : DecodeLE(blocks[i], 8, 4) = Len(blocks[i]) - 12

\* A SHOP block has been written after its sprite blocks and its text block.
C28_Witness ==
    /\ op = "SHOP"
    /\ end_ok
    /\ {NameOf(blocks[i]) : i \in 1..Len(blocks)} = {"8PXL", "TEXT", "SHOP"}
    /\ DecodeLE(last_fb, 8, 4) = 66 - 12

----------------------------------------------------------------------------
(* The resolve phase (check_data.cpp): the node dispatcher and the         *)
(* builders of the file node and of two game blocks.                       *)

\* A diagnostic "Error at line <line>: ..." that mentions the strings strs.
Diag(kind, line, strs) == [kind |-> kind, lines |-> <<line>>, strs |-> strs]

\* ConvertNodeGroup: the builder a node group's name is handed to, "none"
\* if the chain of comparisons reaches the fatal error at its end.
ConvertNodeGroup(name) ==
    IF name = "file" THEN "ConvertFileNode"
    ELSE IF name = "sheet" THEN "ConvertSheetNode"
    ELSE IF name = "sprite" THEN "ConvertSpriteNode"
    ELSE IF name = "person_graphics" THEN "ConvertPersonGraphicsNode"
    ELSE IF name = "recolour" THEN "ConvertRecolourNode"
    ELSE IF name = "frame_data" THEN "ConvertFrameDataNode"
    ELSE IF name = "strings" THEN "ConvertStringsNode"
    ELSE IF name = "string" THEN "ConvertTextNode"
    ELSE IF name = "TSEL" THEN "ConvertTSELNode"
    ELSE IF name = "TCOR" THEN "ConvertTCORNode"
    ELSE IF name = "SURF" THEN "ConvertSURFNode"
    ELSE IF name = "FUND" THEN "ConvertFUNDNode"
    ELSE IF name = "PRSG" THEN "ConvertPRSGNode"
    ELSE IF name = "ANIM" THEN "ConvertANIMNode"
    ELSE IF name = "ANSP" THEN "ConvertANSPNode"
    ELSE IF name = "PATH" THEN "ConvertPATHNode"
    ELSE IF name = "PLAT" THEN "ConvertPLATNode"
    ELSE IF name = "SUPP" THEN "ConvertSUPPNode"
    ELSE IF name = "SHOP" THEN "ConvertSHOPNode"
    ELSE IF name = "GBOR" THEN "ConvertGBORNode"
    ELSE IF name = "GCHK" THEN "ConvertGCHKNode"
    ELSE IF name = "GSLI" THEN "ConvertGSLINode"
    ELSE IF name = "GSCL" THEN "ConvertGSCLNode"
    ELSE "none"

\* The fatal error at the end of ConvertNodeGroup.
UnknownNode(ng) == Diag("unknown node", ng.line, <<ng.name>>)

\* The builders whose result is a GameBlock.
GameBlockBuilders ==
    {"ConvertTSELNode", "ConvertTCORNode", "ConvertSURFNode", "ConvertFUNDNode",
     "ConvertPRSGNode", "ConvertANIMNode", "ConvertANSPNode", "ConvertPATHNode",
     "ConvertPLATNode", "ConvertSUPPNode", "ConvertSHOPNode", "ConvertGBORNode",
     "ConvertGCHKNode", "ConvertGSLINode", "ConvertGSCLNode"}

\* The first position of kids whose node is not of the wanted kind, 0 if none.
FirstOther(kids, wanted) ==
    LET other == {i \in 1..Len(kids) : kids[i] # wanted}
    IN  IF other = {} THEN 0 ELSE CHOOSE i \in other : \A j \in other : i <= j

\* ConvertPRSGNode without the test of the size of the block.
ConvertPRSGNode_NoCap(ng) ==
    LET k == FirstOther(ng.kids, "person_graphics")
    IN  IF k # 0
        THEN [err |-> Diag("not a person_graphics node", ng.line + k, <<>>), blk |-> NoNode]
        ELSE [err |-> NoDiag, blk |-> PersonBlock(Len(ng.kids))]

\* ConvertPRSGNode on a node group whose unnamed values are the node groups
\* kids ("person_graphics" or "frame_data"), the i-th at line ng.line + i:
\* the loop takes the kids in order, and ends the run at the first that is
\* of another kind or that makes the block hold more than 255.
ConvertPRSGNode(ng) ==
    LET k == FirstOther(ng.kids, "person_graphics")
    IN  IF k # 0 /\ k <= 255 + 1
        THEN [err |-> Diag("not a person_graphics node", ng.line + k, <<>>), blk |-> NoNode]
        ELSE IF Len(ng.kids) > 255
        THEN [err |-> Diag("too many", ng.line + 255 + 1, <<>>), blk |-> NoNode]
        ELSE [err |-> NoDiag, blk |-> PersonBlock(Len(ng.kids))]

\* ConvertANIMNode on a node group with the fields person_type and anim_type
\* and the unnamed node groups kids; at most 0xFFFF frames.
ConvertANIMNode(ng) ==
    LET k == FirstOther(ng.kids, "frame_data")
    IN  IF k # 0 /\ k <= 65535 + 1
        THEN [err |-> Diag("not a frame_data node", ng.line + k, <<>>), blk |-> NoNode]
        ELSE IF Len(ng.kids) > 65535
        THEN [err |-> Diag("too many", ng.line + 65535 + 1, <<>>), blk |-> NoNode]
        ELSE [err |-> NoDiag, blk |-> AnimBlock(Len(ng.kids))]

\* ConvertANSPNode on a node group with its three fields and the unnamed
\* node groups kids; at most 0xFFFF frames.
ConvertANSPNode(ng) ==
    LET k == FirstOther(ng.kids, "sprite")
    IN  IF k # 0 /\ k <= 65535 + 1
        THEN [err |-> Diag("not a sprite node", ng.line + k, <<>>), blk |-> NoNode]
        ELSE IF Len(ng.kids) > 65535
        THEN [err |-> Diag("too many", ng.line + 65535 + 1, <<>>), blk |-> NoNode]
        ELSE [err |-> NoDiag, blk |-> AnimSpritesBlock(Len(ng.kids))]

\* The game block the builder of a well-formed node group with this name
\* returns (the builders of PRSG and ANIM are modelled above).
BuiltBlock(name) ==
    CASE name \in {"TSEL", "SURF", "FUND", "PATH", "PLAT", "SUPP"} -> SurfaceBlock(name)
      [] name = "TCOR" -> CornerBlock
      [] name = "ANSP" -> AnimSpritesBlock(MaxEntries)
      [] name = "SHOP" -> ShopBlock(TRUE)
      [] OTHER -> WidgetBlock(name, FALSE)

\* One iteration of the loop of ConvertFileNode over the values of the file
\* node: the game block to add, or the fatal error.
ConvertFileValue(nv) ==
    IF ~nv.is_group THEN [err |-> Diag("not a node group", nv.line, <<>>), blk |-> NoNode]
    ELSE LET builder == ConvertNodeGroup(nv.name)
         IN  IF builder = "none" THEN [err |-> UnknownNode(nv), blk |-> NoNode]
             ELSE IF builder = "ConvertPRSGNode" THEN ConvertPRSGNode(nv)
             ELSE IF builder = "ConvertANIMNode" THEN ConvertANIMNode(nv)
             ELSE IF builder \in GameBlockBuilders
                  THEN [err |-> NoDiag, blk |-> BuiltBlock(nv.name)]
             ELSE [err |-> Diag("not a game block", nv.line, <<>>), blk |-> NoNode]

\* FileNode::Write: every block of the file node writes itself, in order.
RECURSIVE FileNode_WriteFrom(_, _, _)
FileNode_WriteFrom(bl, blks, i) ==
    IF i > Len(blks) THEN bl
    ELSE CHOOSE r \in {FileNode_WriteFrom(w.blocks, blks, i + 1) :
                          w \in {GameBlock_Write(bl, blks[i])}} : TRUE

FileNode_Write(bl, fn) == FileNode_WriteFrom(bl, fn.blocks, 1)

----------------------------------------------------------------------------
(* SpecMain: one run of main on a parsed input.  The input is a list of    *)
(* unnamed node groups at the root; the k-th stands at line 10 * k and     *)
(* the i-th value inside it at line 10 * k + i.                            *)

\* The diagnostics of the resolve phase.
SemanticKinds ==
    {"unknown node", "not a file node", "not a node group", "not a game block",
     "not a person_graphics node", "not a frame_data node"}

\* The values a file node of the input may hold.
FileValues ==
    {[is_group |-> TRUE, name |-> "PRSG", kids |-> <<"person_graphics">>],
     [is_group |-> TRUE, name |-> "ANIM", kids |-> <<"frame_data">>],
     [is_group |-> TRUE, name |-> "PRSG", kids |-> <<"person_graphics", "frame_data">>],
     [is_group |-> TRUE, name |-> "ANIM", kids |-> <<"person_graphics">>],
     [is_group |-> TRUE, name |-> "sheet", kids |-> <<>>],
     [is_group |-> TRUE, name |-> "BDIR", kids |-> <<>>],
     [is_group |-> TRUE, name |-> "FOO", kids |-> <<>>],
     [is_group |-> FALSE, name |-> "", kids |-> <<>>]}

\* The names of the node groups at the root of the input.
RootNames == {"file", "sheet", "FOO"}

\* exit(1) after the diagnostic d has been printed.
Fatal(d) ==
    /\ exit_code' = 1
    /\ main_pc' = "exit"
    /\ diag' = d

MainInit == WriterInit

\* PrepareNamedValues of CheckTree reaches the next root value and hands it
\* to ConvertNodeGroup; a file node starts being filled by ConvertFileNode.
BeginRootNode(name, fname) ==
    /\ main_pc = "resolve"
    /\ cur_file = NoNode
    /\ Len(root) < MaxRoots
    /\ LET ng == [name |-> name, line |-> 10 * (Len(root) + 1)]
           builder == ConvertNodeGroup(name)
       IN  IF builder = "none"
           THEN Fatal(UnknownNode(ng)) /\ UNCHANGED <<root, cur_file>>
           ELSE IF builder = "ConvertFileNode"
           THEN /\ cur_file' = [class |-> "FileNode", line |-> ng.line,
                                file_name |-> fname, blocks |-> <<>>]
                /\ UNCHANGED <<root, main_pc, exit_code, diag>>
           ELSE /\ root' = Append(root, [class |-> builder, line |-> ng.line])
                /\ UNCHANGED <<cur_file, main_pc, exit_code, diag>>
    /\ UNCHANGED <<file_nodes, resolved, opened, out_files, wvars, evars, svars, dvars, vvars, ivars, nvars>>

\* The loop of ConvertFileNode handles the next value of the file node.
ConvertFileChild(v) ==
    /\ main_pc = "resolve"
    /\ cur_file # NoNode
    /\ Len(cur_file.blocks) < MaxChildren
    /\ LET nv == [is_group |-> v.is_group, name |-> v.name, kids |-> v.kids,
                  line |-> cur_file.line + Len(cur_file.blocks) + 1]
           r == ConvertFileValue(nv)
       IN  IF r.err # NoDiag
           THEN Fatal(r.err) /\ UNCHANGED cur_file
           ELSE /\ cur_file' = [cur_file EXCEPT !.blocks = Append(@, r.blk)]
                /\ UNCHANGED <<main_pc, exit_code, diag>>
    /\ UNCHANGED <<root, file_nodes, resolved, opened, out_files, wvars, evars, svars, dvars, vvars, ivars, nvars>>

\* ConvertFileNode returns: the file node is the next root value.
EndFileNode ==
    /\ main_pc = "resolve"
    /\ cur_file # NoNode
    /\ root' = Append(root, cur_file)
    /\ cur_file' = NoNode
    /\ UNCHANGED <<main_pc, file_nodes, resolved, opened, out_files, exit_code, diag,
                   wvars, evars, svars, dvars, vvars, ivars, nvars>>

\* The root has no more values: the loop of CheckTree collects the file
\* nodes and CheckTree returns them to main.
Collect ==
    /\ main_pc = "resolve"
    /\ cur_file = NoNode
    /\ LET k == FirstOther([i \in 1..Len(root) |-> root[i].class], "FileNode")
       IN  IF k # 0
           THEN Fatal(Diag("not a file node", root[k].line, <<>>))
                /\ UNCHANGED <<file_nodes, resolved>>
           ELSE /\ file_nodes' = root
                /\ resolved' = TRUE
                /\ main_pc' = "emit"
                /\ UNCHANGED <<exit_code, diag>>
    /\ UNCHANGED <<root, cur_file, opened, out_files, wvars, evars, svars, dvars, vvars, ivars, nvars>>

\* One iteration of the loop of main, with the file nodes from root taken
\* while the root is still being converted.
EmitFile_Eager ==
    /\ main_pc = "resolve"
    /\ cur_file = NoNode
    /\ root # <<>>
    /\ root[Len(root)].class = "FileNode"
    /\ opened' = Append(opened, root[Len(root)].file_name)
    /\ \E w \in {FileNode_Write(<<>>, root[Len(root)])} :
           out_files' = [out_files EXCEPT ![root[Len(root)].file_name] = WriteFile(w)]
    /\ UNCHANGED <<main_pc, root, cur_file, file_nodes, resolved, exit_code, diag,
                   wvars, evars, svars, dvars, vvars, ivars, nvars>>

\* One iteration of the loop of main: a fresh FileWriter, FileNode::Write,
\* FileWriter::WriteFile.  fopen and the fwrite of the header may fail.
EmitFile ==
    /\ main_pc = "emit"
    /\ file_nodes # <<>>
    /\ \E outcome \in {"written", "open failed", "write failed"} :
         LET fn == Head(file_nodes)
         IN  CASE outcome = "written" ->
                    /\ opened' = Append(opened, fn.file_name)
                    /\ \E w \in {FileNode_Write(<<>>, fn)} :
                           out_files' = [out_files EXCEPT ![fn.file_name] = WriteFile(w)]
                    /\ file_nodes' = Tail(file_nodes)
                    /\ UNCHANGED <<main_pc, exit_code, diag>>
               [] outcome = "open failed" ->
                    /\ Fatal([kind |-> "open failed", lines |-> <<>>,
                              strs |-> <<fn.file_name>>])
                    /\ UNCHANGED <<opened, out_files, file_nodes>>
               [] outcome = "write failed" ->
                    /\ opened' = Append(opened, fn.file_name)
                    /\ out_files' = [out_files EXCEPT ![fn.file_name] = <<>>]
                    /\ Fatal([kind |-> "write failed", lines |-> <<>>,
                              strs |-> <<fn.file_name>>])
                    /\ UNCHANGED file_nodes
    /\ UNCHANGED <<root, cur_file, resolved, wvars, evars, svars, dvars, vvars, ivars, nvars>>

\* The loop of main is over: exit(0).
Finish ==
    /\ main_pc = "emit"
    /\ file_nodes = <<>>
    /\ main_pc' = "exit"
    /\ exit_code' = 0
    /\ UNCHANGED <<root, cur_file, file_nodes, resolved, opened, out_files, diag,
                   wvars, evars, svars, dvars, vvars, ivars, nvars>>

MainNext ==
    \/ \E name \in RootNames, fname \in FileNames : BeginRootNode(name, fname)
    \/ \E v \in FileValues : ConvertFileChild(v)
    \/ EndFileNode
    \/ Collect
    \/ EmitFile
    \/ Finish

SpecMain == MainInit /\ [][MainNext]_vars

\* C6: no output file is opened or exists before the resolve phase is over
\* for the whole input, and a run that ended with a diagnostic of the
\* resolve phase has exit code 1 and has opened and created no output file.
C6_NoOutputBeforeResolved ==
    /\ (opened # <<>> \/ \E n \in FileNames : out_files[n] # NoFile) => resolved
    /\ (main_pc = "exit" /\ diag.kind \in SemanticKinds) =>
           /\ exit_code = 1
           /\ opened = <<>>
           /\ \A n \in FileNames : out_files[n] = NoFile

\* A run that ended with the error of a value of the second file node, after
\* a first file node with a game block had been converted completely.
C6_Witness ==
    /\ main_pc = "exit"
    /\ exit_code = 1
    /\ diag.kind \in SemanticKinds
    /\ Len(root) = 1
    /\ root[1].class = "FileNode"
    /\ root[1].blocks # <<>>
    /\ cur_file # NoNode
    /\ diag.lines[1] > cur_file.line
    /\ opened = <<>>

----------------------------------------------------------------------------
(* String tables (check_data.cpp, nodes.cpp): string nodes, their merge    *)
(* into the collection of a strings node, and the check a SHOP node makes. *)

\* GetLanguageIndex: the index of the language, -1 where the code ends with
\* the fatal error.
GetLanguageIndex(lname) ==
    LET known == {i \in 0..(LNG_COUNT - 1) : _languages[i + 1] = lname}
    IN  IF known = {} THEN -1 ELSE CHOOSE i \in known : \A j \in known : i <= j

\* The line of the "lang" and of the "text" field of a string node: the
\* fields of the node at line n stand at n + 1 (name), n + 2 and n + 3.
LangLine(ng) == ng.line + 2
TextLine(ng) == ng.line + 3

\* ConvertTextNode: a TextNode with the one language slot the node defines.
ConvertTextNode(ng) ==
    LET lng == GetLanguageIndex(ng.lang)
    IN  IF lng < 0
        THEN [err |-> Diag("unknown language", LangLine(ng), <<ng.lang>>), tn |-> NoNode]
        ELSE [err |-> NoDiag,
              tn |-> [name  |-> ng.name,
                      lines |-> [j \in 1..LNG_COUNT |-> IF j = lng + 1 THEN TextLine(ng) ELSE -1],
                      texts |-> [j \in 1..LNG_COUNT |-> IF j = lng + 1 THEN ng.text ELSE ""]]]

\* std::set<TextNode>::find: the elements equivalent to tn in the set's order.
Find(texts, tn) == {t \in texts : ~TextNodeLess(t, tn) /\ ~TextNodeLess(tn, t)}

\* The smallest element of a non-empty set of numbers.
Min(S) == CHOOSE i \in S : \A j \in S : i <= j

\* The loop body of ConvertStringsNode with an equal node already stored:
\* every slot of tn is copied without looking at the stored one.
MergeTextNode_NoConflict(texts, tn) ==
    LET found == Find(texts, tn)
    IN  IF found = {} THEN [err |-> NoDiag, texts |-> texts \cup {tn}]
        ELSE LET iter == CHOOSE t \in found : TRUE
             IN  [err |-> NoDiag,
                  texts |-> (texts \ {iter}) \cup
                      {[iter EXCEPT
                          !.lines = [j \in 1..LNG_COUNT |->
                                        IF tn.lines[j] >= 0 THEN tn.lines[j] ELSE @[j]],
                          !.texts = [j \in 1..LNG_COUNT |->
                                        IF tn.lines[j] >= 0 THEN tn.texts[j] ELSE @[j]]]}]

\* The loop body of ConvertStringsNode with the new node taking the place
\* of the stored one.
MergeTextNode_Replace(texts, tn) ==
    [err |-> NoDiag, texts |-> (texts \ Find(texts, tn)) \cup {tn}]

\* The loop body of ConvertStringsNode for the TextNode tn: insert it, or
\* merge its slots into the stored node of the same name; a slot both define
\* is the fatal error.
MergeTextNode(texts, tn) ==
    LET found == Find(texts, tn)
    IN  IF found = {} THEN [err |-> NoDiag, texts |-> texts \cup {tn}]
        ELSE LET iter  == CHOOSE t \in found : TRUE
                 clash == {j \in 1..LNG_COUNT : tn.lines[j] >= 0 /\ iter.lines[j] >= 0}
             IN  IF clash # {}
                 THEN [err |-> [kind |-> "conflict",
                                lines |-> <<tn.lines[Min(clash)], iter.lines[Min(clash)]>>,
                                strs |-> <<>>],
                       texts |-> texts]
                 ELSE [err |-> NoDiag,
                       texts |-> (texts \ {iter}) \cup
                           {[iter EXCEPT
                               !.lines = [j \in 1..LNG_COUNT |->
                                             IF tn.lines[j] >= 0 THEN tn.lines[j] ELSE @[j]],
                               !.texts = [j \in 1..LNG_COUNT |->
                                             IF tn.lines[j] >= 0 THEN tn.texts[j] ELSE @[j]]]}]

\* Strings::CheckTranslations with the default text wanted of the expected
\* names only.
CheckTranslations_ExpectedOnly(texts, names, line) ==
    LET missing == {i \in 1..Len(names) : Find(texts, [name |-> names[i]]) = {}}
        nodef   == {i \in 1..Len(names) :
                       \E t \in Find(texts, [name |-> names[i]]) : t.lines[1] < 0}
    IN  IF missing # {}
        THEN [err |-> Diag("not defined", line, <<names[Min(missing)]>>), texts |-> texts]
        ELSE IF nodef # {}
        THEN [err |-> Diag("no default", line, <<names[Min(nodef)]>>), texts |-> texts]
        ELSE [err |-> NoDiag, texts |-> texts]

\* Strings::CheckTranslations
CheckTranslations(texts, names, line) ==
    LET missing == {i \in 1..Len(names) : Find(texts, [name |-> names[i]]) = {}}
        order   == InOrder(texts)
        nodef   == {i \in 1..Len(order) : order[i].lines[1] < 0}
    IN  IF missing # {}
        THEN [err |-> Diag("not defined", line, <<names[Min(missing)]>>), texts |-> texts]
        ELSE IF nodef # {}
        THEN [err |-> Diag("no default", line, <<order[Min(nodef)].name>>), texts |-> texts]
        ELSE [err |-> NoDiag, texts |-> texts]

----------------------------------------------------------------------------
(* SpecStrings: one strings node with up to MaxStrings string nodes, built *)
(* by ConvertStringsNode and then checked by the SHOP node holding it.     *)
(* The k-th string node stands at line 10 * k and the SHOP node at line 1. *)

StringNames == {"buy", "name"}
LangNames == {"", "en_GB", "nl_NL", "xx_XX"}

\* The text of the k-th string node: neighbours have different texts.
StringTexts == <<"X", "Yy">>

\* The lists of expected names a builder may hand to CheckTranslations.
ExpectedNames == {<<>>, <<"buy">>, <<"name">>, <<"buy", "name">>, <<"name", "buy">>}

StringsInit == WriterInit

\* The parser adds one more string node to the strings node.
ParseStringNode(name, lang) ==
    /\ main_pc = "resolve"
    /\ s_pc = "parse"
    /\ Len(s_in) < MaxStrings
    /\ s_in' = Append(s_in, [name |-> name, lang |-> lang,
                             text |-> StringTexts[(Len(s_in) % Len(StringTexts)) + 1],
                             line |-> 10 * (Len(s_in) + 1)])
    /\ UNCHANGED <<s_pc, s_nodes, s_next, s_texts, s_names, s_pre, mvars, wvars, evars, dvars, vvars, ivars, nvars>>

\* The input is complete and ConvertStringsNode begins: new Strings.
EndParse ==
    /\ main_pc = "resolve"
    /\ s_pc = "parse"
    /\ s_pc' = IF s_in = <<>> THEN "merged" ELSE "convert"
    /\ UNCHANGED <<s_in, s_nodes, s_next, s_texts, s_names, s_pre, mvars, wvars, evars, dvars, vvars, ivars, nvars>>

\* PrepareNamedValues of ConvertStringsNode converts the next string node.
ConvertNext ==
    /\ main_pc = "resolve"
    /\ s_pc = "convert"
    /\ LET r == ConvertTextNode(s_in[Len(s_nodes) + 1])
       IN  IF r.err # NoDiag
           THEN Fatal(r.err) /\ UNCHANGED <<s_pc, s_nodes>>
           ELSE /\ s_nodes' = Append(s_nodes, r.tn)
                /\ s_pc' = IF Len(s_nodes) + 1 = Len(s_in) THEN "merge" ELSE "convert"
                /\ UNCHANGED <<main_pc, exit_code, diag>>
    /\ UNCHANGED <<s_in, s_next, s_texts, s_names, s_pre, root, cur_file, file_nodes,
                   resolved, opened, out_files, wvars, evars, dvars, vvars, ivars, nvars>>

\* One iteration of the loop of ConvertStringsNode; after the last one the
\* function returns the collection.
MergeNext ==
    /\ main_pc = "resolve"
    /\ s_pc = "merge"
    /\ LET r == MergeTextNode(s_texts, s_nodes[s_next])
       IN  IF r.err # NoDiag
           THEN Fatal(r.err) /\ UNCHANGED <<s_pc, s_next, s_texts>>
           ELSE /\ s_texts' = r.texts
                /\ s_next' = s_next + 1
                /\ s_pc' = IF s_next = Len(s_nodes) THEN "merged" ELSE "merge"
                /\ UNCHANGED <<main_pc, exit_code, diag>>
    /\ UNCHANGED <<s_in, s_nodes, s_names, s_pre, root, cur_file, file_nodes,
                   resolved, opened, out_files, wvars, evars, dvars, vvars, ivars, nvars>>

\* ConvertSHOPNode: shop_text->CheckTranslations(names, count, ng->line)
CallCheckTranslations(names) ==
    /\ main_pc = "resolve"
    /\ s_pc = "merged"
    /\ s_pc' = "checked"
    /\ s_names' = names
    /\ s_pre' = s_texts
    /\ LET r == CheckTranslations(s_texts, names, 1)
       IN  /\ s_texts' = r.texts
           /\ IF r.err # NoDiag THEN Fatal(r.err)
              ELSE UNCHANGED <<main_pc, exit_code, diag>>
    /\ UNCHANGED <<s_in, s_nodes, s_next, root, cur_file, file_nodes,
                   resolved, opened, out_files, wvars, evars, dvars, vvars, ivars, nvars>>

StringsNext ==
    \/ \E name \in StringNames, lang \in LangNames : ParseStringNode(name, lang)
    \/ EndParse
    \/ ConvertNext
    \/ MergeNext
    \/ \E names \in ExpectedNames : CallCheckTranslations(names)

SpecStrings == StringsInit /\ [][StringsNext]_vars

\* The string nodes the loop of ConvertStringsNode has added so far.
Added == {i \in 1..Len(s_in) : i < s_next}

\* The string nodes among I that define the language with index j - 1 of
\* the string called name.
Definers(I, name, j) == {i \in I : s_in[i].name = name /\ s_in[i].lang = _languages[j]}

\* C7: after any sequence of string nodes has been added, the collection
\* holds exactly one TextNode per distinct name of the added nodes; every
\* language slot some added node defined holds the text and the line of the
\* one node that defined it, and every other slot is absent (line -1).
C7_OneTextNodePerName ==
    s_pc \in {"merge", "merged"} =>
        /\ {t.name : t \in s_texts} = {s_in[i].name : i \in Added}
        /\ \A t, u \in s_texts : t.name = u.name => t = u
        /\ \A t \in s_texts : \A j \in 1..LNG_COUNT :
               IF Definers(Added, t.name, j) = {} THEN t.lines[j] = -1
               ELSE /\ Cardinality(Definers(Added, t.name, j)) = 1
                    /\ \A i \in Definers(Added, t.name, j) :
                           /\ t.lines[j] = TextLine(s_in[i])
                           /\ t.texts[j] = s_in[i].text

\* Three nodes were added: a translation of one string, a node of another
\* string, and then the default text of the first string.
C7_Witness ==
    /\ s_pc = "merged"
    /\ main_pc = "resolve"
    /\ Len(s_in) = 3
    /\ s_in[1].name = s_in[3].name
    /\ s_in[2].name # s_in[1].name
    /\ s_in[1].lang = "nl_NL"
    /\ s_in[3].lang = ""
    /\ Cardinality(s_texts) = 2

\* The strings node has been dealt with: it was built, or the run ended.
StringsEnded == main_pc = "exit" \/ s_pc \in {"merged", "checked"}

\* The pairs of string nodes that define the same name and language.
SamePairs ==
    {pq \in (1..Len(s_in)) \X (1..Len(s_in)) :
        /\ pq[1] < pq[2]
        /\ s_in[pq[1]].name = s_in[pq[2]].name
        /\ s_in[pq[1]].lang = s_in[pq[2]].lang}

\* The members of a sequence.
Range(f) == {f[i] : i \in 1..Len(f)}

\* C8, as claimed: for every two string nodes of the same name and language
\* the run ends with a fatal error whose diagnostic contains the lines of
\* both and the string name.
C8_DiagnosticHasLinesAndName ==
    (s_pc # "parse" /\ StringsEnded) =>
        \A pq \in SamePairs :
            /\ main_pc = "exit"
            /\ exit_code = 1
            /\ TextLine(s_in[pq[1]]) \in Range(diag.lines)
            /\ TextLine(s_in[pq[2]]) \in Range(diag.lines)
            /\ s_in[pq[1]].name \in Range(diag.strs)

\* The first string node that repeats the name and language of an earlier one.
FirstRepeat == Min({pq[2] : pq \in SamePairs})

\* C8, amended: two string nodes of the same name and language end the run
\* with a fatal error; when every string node names a known language, the
\* diagnostic is that of the first node repeating an earlier definition: it
\* holds the text lines of that node and of the earlier one, and no name.
C8_ConflictIsFatal ==
    (s_pc # "parse" /\ StringsEnded /\ SamePairs # {}) =>
        /\ main_pc = "exit"
        /\ exit_code = 1
        /\ (\A i \in 1..Len(s_in) : GetLanguageIndex(s_in[i].lang) >= 0) =>
               /\ diag.kind = "conflict"
               /\ diag.strs = <<>>
               /\ \E p \in 1..(FirstRepeat - 1) :
                      /\ <<p, FirstRepeat>> \in SamePairs
                      /\ diag.lines = <<TextLine(s_in[FirstRepeat]), TextLine(s_in[p])>>

\* The run ended with the conflict of the first and the third node, with a
\* node of another language between them.
C8_Witness ==
    /\ main_pc = "exit"
    /\ diag.kind = "conflict"
    /\ Len(s_in) = 3
    /\ <<1, 3>> \in SamePairs
    /\ s_in[2].name = s_in[1].name
    /\ s_in[2].lang # s_in[1].lang
    /\ diag.lines = <<33, 13>>

\* The expected names that the collection lacked when the check began.
MissingNames == {n \in Range(s_names) : \A t \in s_pre : t.name # n}

\* C9: CheckTranslations is fatal with a diagnostic citing a missing name
\* if an expected name is missing; else it is fatal if any text node of the
\* collection has no default-language text; else it passes and the
\* collection is as it was.
C9_CheckTranslations ==
    s_pc = "checked" =>
        IF MissingNames # {}
        THEN /\ main_pc = "exit"
             /\ exit_code = 1
             /\ diag.kind = "not defined"
             /\ Range(diag.strs) # {}
             /\ Range(diag.strs) \subseteq MissingNames
        ELSE IF \E t \in s_pre : t.lines[1] < 0
        THEN /\ main_pc = "exit"
             /\ exit_code = 1
             /\ diag.kind = "no default"
        ELSE /\ main_pc = "resolve"
             /\ diag = NoDiag
             /\ s_texts = s_pre

\* The check ended the run for a string that is not among the expected
\* names and has no default text, all expected names being present.
C9_Witness ==
    /\ s_pc = "checked"
    /\ main_pc = "exit"
    /\ s_names = <<"buy">>
    /\ MissingNames = {}
    /\ diag.kind = "no default"
    /\ diag.strs = <<"name">>
    /\ \E t \in s_pre : t.name = "buy" /\ t.lines[1] >= 0

----------------------------------------------------------------------------
(* SpecDispatch: node groups of any name handed to ConvertNodeGroup.       *)

\* The names of the node groups and of the game blocks of the block tree
\* (nodes.cpp), and some names that are neither.
NodeNames ==
    {"file", "sheet", "sprite", "person_graphics", "recolour", "frame_data",
     "strings", "string"} \cup GameBlockNames \cup {"FOO", "tsel", "Sprite", ""}

DispatchInit == WriterInit

\* PrepareNamedValues or ConvertFileNode hands a node group to
\* ConvertNodeGroup, which calls the builder or ends the run.
Dispatch(name, line) ==
    /\ main_pc = "resolve"
    /\ d_node' = [class |-> "NodeGroup", name |-> name, line |-> line]
    /\ d_builder' = ConvertNodeGroup(name)
    /\ IF ConvertNodeGroup(name) = "none"
       THEN Fatal(UnknownNode([name |-> name, line |-> line]))
       ELSE UNCHANGED <<main_pc, exit_code, diag>>
    /\ UNCHANGED <<root, cur_file, file_nodes, resolved, opened, out_files,
                   wvars, evars, svars, vvars, ivars, nvars>>

DispatchNext == \E name \in NodeNames, line \in 1..MaxLine : Dispatch(name, line)

SpecDispatch == DispatchInit /\ [][DispatchNext]_vars

\* C10: a node group whose tag is file, sheet, sprite, person_graphics,
\* recolour, frame_data, strings, string, TSEL, TCOR, SURF, FUND, PATH, PLAT,
\* SUPP, PRSG, ANIM, ANSP, SHOP, GBOR, GCHK, GSLI, GSCL, BDIR or GSLP is handed
\* to a builder and the run goes on; a node group with any other tag ends
\* the run with a fatal error at the node's line.
C10_DispatcherAcceptsClaimedTags ==
    d_node # NoNode =>
        IF d_node.name \in
               {"file", "sheet", "sprite", "person_graphics", "recolour", "frame_data",
                "strings", "string", "TSEL", "TCOR", "SURF", "FUND", "PATH", "PLAT",
                "SUPP", "PRSG", "ANIM", "ANSP", "SHOP", "GBOR", "GCHK", "GSLI", "GSCL",
                "BDIR", "GSLP"}
        THEN /\ d_builder # "none"
             /\ main_pc = "resolve"
             /\ diag = NoDiag
        ELSE /\ d_builder = "none"
             /\ main_pc = "exit"
             /\ exit_code = 1
             /\ diag.kind = "unknown node"
             /\ diag.lines = <<d_node.line>>

----------------------------------------------------------------------------
(* Expressions (ast.cpp).  A long long is kept as its two's complement     *)
(* bits: four limbs of 16 bits, the most significant first.  An Expression *)
(* object is an entry of a heap (a sequence); a pointer is its index.      *)

\* The long long with the value n, for an int n.
Int64(n) ==
    IF n >= 0 THEN <<0, 0, n \div 65536, n % 65536>>
    ELSE <<65535, 65535, (n \div 65536) % 65536, n % 65536>>

\* The least and the greatest long long.
INT64_MIN == <<32768, 0, 0, 0>>
INT64_MAX == <<32767, 65535, 65535, 65535>>

\* -value that stops at the greatest value instead of wrapping.
Neg64_Saturating(v) ==
    IF v = <<32768, 0, 0, 0>> THEN <<32767, 65535, 65535, 65535>>
    ELSE LET s4 == (65535 - v[4]) + 1
             s3 == (65535 - v[3]) + (s4 \div 65536)
             s2 == (65535 - v[2]) + (s3 \div 65536)
             s1 == (65535 - v[1]) + (s2 \div 65536)
         IN  <<s1 % 65536, s2 % 65536, s3 % 65536, s4 % 65536>>

\* -value of a long long as the machine computes it: complement plus one,
\* so that the least value is its own negation.
Neg64(v) ==
    LET s4 == (65535 - v[4]) + 1
        s3 == (65535 - v[3]) + (s4 \div 65536)
        s2 == (65535 - v[2]) + (s3 \div 65536)
        s1 == (65535 - v[1]) + (s2 \div 65536)
    IN  <<s1 % 65536, s2 % 65536, s3 % 65536, s4 % 65536>>

\* The constructors of the expression classes.
NumberLiteral(line, value) == [kind |-> "number", line |-> line, value |-> value]
StringLiteral(line, text) == [kind |-> "string", line |-> line, text |-> text]
IdentifierLiteral(line, name) == [kind |-> "identifier", line |-> line, name |-> name]
UnaryOperator(line, child) == [kind |-> "unary", line |-> line, child |-> child]

\* const Symbol *symbols: NULL, or the entries before the {NULL, 0} one.
NoSymbols == [null |-> TRUE, entries |-> <<>>]

\* NumberLiteral::Evaluate and StringLiteral::Evaluate: a new object with
\* the line and the content of this one.
Literal_Evaluate(h, e) == [heap |-> Append(h, h[e]), res |-> Len(h) + 1, err |-> NoDiag]

\* IdentifierLiteral::Evaluate looking at the last entry of that name.
IdentifierLiteral_Evaluate_Last(h, e, symbols) ==
    LET hits == {i \in 1..Len(symbols.entries) : symbols.entries[i].name = h[e].name}
    IN  IF symbols.null \/ hits = {}
        THEN [heap |-> h, res |-> 0,
              err |-> Diag("unknown identifier", h[e].line, <<h[e].name>>)]
        ELSE [heap |-> Append(h, NumberLiteral(h[e].line,
                          Int64(symbols.entries[CHOOSE i \in hits : \A j \in hits : j <= i].value))),
              res |-> Len(h) + 1, err |-> NoDiag]

\* IdentifierLiteral::Evaluate
IdentifierLiteral_Evaluate(h, e, symbols) ==
    LET hits == {i \in 1..Len(symbols.entries) : symbols.entries[i].name = h[e].name}
    IN  IF symbols.null \/ hits = {}
        THEN [heap |-> h, res |-> 0,
              err |-> Diag("unknown identifier", h[e].line, <<h[e].name>>)]
        ELSE [heap |-> Append(h, NumberLiteral(h[e].line,
                          Int64(symbols.entries[Min(hits)].value))),
              res |-> Len(h) + 1, err |-> NoDiag]

\* Expression::Evaluate of the object e of the heap h: the heap afterwards,
\* the object returned (0 if none) and the fatal error (NoDiag if none).
RECURSIVE Evaluate(_, _, _)
Evaluate(h, e, symbols) ==
    CASE h[e].kind \in {"number", "string"} -> Literal_Evaluate(h, e)
      [] h[e].kind = "identifier" -> IdentifierLiteral_Evaluate(h, e, symbols)
      [] h[e].kind = "unary" ->
           \* UnaryOperator::Evaluate: negate the value of the child's result.
           LET r == Evaluate(h, h[e].child, symbols)
           IN  IF r.err # NoDiag THEN r
               ELSE IF r.heap[r.res].kind = "number"
               THEN [heap |-> [r.heap EXCEPT ![r.res].value = Neg64(@)],
                     res |-> r.res, err |-> NoDiag]
               ELSE [heap |-> r.heap, res |-> 0,
                     err |-> Diag("cannot negate", h[e].line, <<>>)]

----------------------------------------------------------------------------
(* Named values (check_data.cpp): ValueInformation and Values.  An entry   *)
(* of Values::named_values is [name, line, used, expr, node]: expr is the  *)
(* heap index of expr_value (0 for NULL) and node is node_value.           *)

\* Values::FindValue: the first unused entry of that name, marked used.
FindValue(vals, fld_name, ng) ==
    LET hits == {i \in 1..Len(vals) : ~vals[i].used /\ vals[i].name = fld_name}
    IN  IF hits = {}
        THEN [vals |-> vals, idx |-> 0,
              err |-> Diag("cannot find", ng.line, <<fld_name, ng.name>>)]
        ELSE [vals |-> [vals EXCEPT ![Min(hits)].used = TRUE], idx |-> Min(hits),
              err |-> NoDiag]

\* ValueInformation::GetNumber(line, node, symbols)
VI_GetNumber(h, vi, line, node, symbols) ==
    LET fail == [value |-> <<>>,
                 err |-> Diag("not a numeric value", line, <<vi.name, node>>)]
    IN  IF vi.expr = 0 THEN fail
        ELSE IF h[vi.expr].kind = "number"
        THEN [value |-> h[vi.expr].value, err |-> NoDiag]
        ELSE LET r == Evaluate(h, vi.expr, symbols)
             IN  IF r.err # NoDiag THEN [value |-> <<>>, err |-> r.err]
                 ELSE IF r.heap[r.res].kind # "number" THEN fail
                 ELSE [value |-> r.heap[r.res].value, err |-> NoDiag]

\* ValueInformation::GetString(line, node)
VI_GetString(h, vi, line, node) ==
    LET fail == [value |-> "",
                 err |-> Diag("not a string value", line, <<vi.name, node>>)]
    IN  IF vi.expr = 0 THEN fail
        ELSE IF h[vi.expr].kind = "string"
        THEN [value |-> h[vi.expr].text, err |-> NoDiag]
        ELSE LET r == Evaluate(h, vi.expr, NoSymbols)
             IN  IF r.err # NoDiag THEN [value |-> "", err |-> r.err]
                 ELSE IF r.heap[r.res].kind # "string" THEN fail
                 ELSE [value |-> r.heap[r.res].text, err |-> NoDiag]

\* ValueInformation::GetSprite that leaves node_value in the entry.
VI_GetSprite_KeepNode(vi, line, node) ==
    IF vi.node.class = "SpriteBlock"
    THEN [vi |-> vi, value |-> vi.node, err |-> NoDiag]
    ELSE [vi |-> vi, value |-> NoNode,
          err |-> Diag("not a sprite node", line, <<vi.name, node>>)]

\* ValueInformation::GetSprite(line, node)
VI_GetSprite(vi, line, node) ==
    IF vi.node.class = "SpriteBlock"
    THEN [vi |-> [vi EXCEPT !.node = NoNode], value |-> vi.node, err |-> NoDiag]
    ELSE [vi |-> vi, value |-> NoNode,
          err |-> Diag("not a sprite node", line, <<vi.name, node>>)]

\* Values::GetNumber reporting at the line of the entry it found.
Values_GetNumber_EntryLine(h, vals, ng, fld_name) ==
    LET f == FindValue(vals, fld_name, ng)
    IN  IF f.err # NoDiag THEN [vals |-> f.vals, idx |-> 0, value |-> <<>>, err |-> f.err]
        ELSE LET g == VI_GetNumber(h, f.vals[f.idx], f.vals[f.idx].line, ng.name, NoSymbols)
             IN  [vals |-> f.vals, idx |-> f.idx, value |-> g.value, err |-> g.err]

\* Values::GetNumber(fld_name, symbols): the symbols are not handed on.
Values_GetNumber(h, vals, ng, fld_name) ==
    LET f == FindValue(vals, fld_name, ng)
    IN  IF f.err # NoDiag THEN [vals |-> f.vals, idx |-> 0, value |-> <<>>, err |-> f.err]
        ELSE LET g == VI_GetNumber(h, f.vals[f.idx], ng.line, ng.name, NoSymbols)
             IN  [vals |-> f.vals, idx |-> f.idx, value |-> g.value, err |-> g.err]

\* Values::GetString(fld_name)
Values_GetString(h, vals, ng, fld_name) ==
    LET f == FindValue(vals, fld_name, ng)
    IN  IF f.err # NoDiag THEN [vals |-> f.vals, idx |-> 0, value |-> "", err |-> f.err]
        ELSE LET g == VI_GetString(h, f.vals[f.idx], ng.line, ng.name)
             IN  [vals |-> f.vals, idx |-> f.idx, value |-> g.value, err |-> g.err]

\* Values::GetSprite(fld_name)
Values_GetSprite(vals, ng, fld_name) ==
    LET f == FindValue(vals, fld_name, ng)
    IN  IF f.err # NoDiag THEN [vals |-> f.vals, idx |-> 0, value |-> NoNode, err |-> f.err]
        ELSE LET g == VI_GetSprite(f.vals[f.idx], ng.line, ng.name)
             IN  [vals |-> [f.vals EXCEPT ![f.idx] = g.vi], idx |-> f.idx,
                  value |-> g.value, err |-> g.err]

\* The objects the parser makes for an expression written at a line: the
\* heap with them and the index of the expression's root.
RECURSIVE Parse(_, _, _)
Parse(h, t, line) ==
    CASE t.form = "number" -> [heap |-> Append(h, NumberLiteral(line, t.value)), root |-> Len(h) + 1]
      [] t.form = "string" -> [heap |-> Append(h, StringLiteral(line, t.text)), root |-> Len(h) + 1]
      [] t.form = "identifier" ->
           [heap |-> Append(h, IdentifierLiteral(line, t.name)), root |-> Len(h) + 1]
      [] t.form = "minus" ->
           LET c == Parse(h, t.of, line)
           IN  [heap |-> Append(c.heap, UnaryOperator(line, c.root)), root |-> Len(c.heap) + 1]

\* One iteration of the second loop of Values::PrepareNamedValues for a
\* value with a single name: the new entry, or the fatal error.  The group
\* is an expression (heap index expr) or a node group (expr = 0) that
\* ConvertNodeGroup has turned into node.
PrepareNamedValue(h, nv, symbols) ==
    IF nv.expr = 0
    THEN [heap |-> h, err |-> NoDiag,
          vi |-> [name |-> nv.name, line |-> nv.line, used |-> FALSE,
                  expr |-> 0, node |-> nv.node]]
    ELSE LET r == Evaluate(h, nv.expr, symbols)
         IN  [heap |-> r.heap, err |-> r.err,
              vi |-> [name |-> nv.name, line |-> nv.line, used |-> FALSE,
                      expr |-> r.res, node |-> NoNode]]

----------------------------------------------------------------------------
(* SpecValues: expressions are evaluated, and the body of one node group   *)
(* is prepared and its fields are extracted by name.  The node stands at   *)
(* line 10 and its k-th value at line 10 + k.                              *)

\* _surface_types
_surface_types ==
    [null |-> FALSE,
     entries |-> <<[name |-> "reserved", value |-> 0], [name |-> "the_green", value |-> 16],
                   [name |-> "short_grass", value |-> 17],
                   [name |-> "medium_grass", value |-> 18],
                   [name |-> "long_grass", value |-> 19], [name |-> "sand", value |-> 32],
                   [name |-> "cursor", value |-> 48]>>]

\* A table in which a name stands twice, the second time before a negative value.
RepeatingSymbols ==
    [null |-> FALSE,
     entries |-> <<[name |-> "wood", value |-> 16], [name |-> "brick", value |-> 48],
                   [name |-> "wood", value |-> -32]>>]

\* The tables handed to Evaluate.
SymbolTables == {NoSymbols, _surface_types, RepeatingSymbols}

\* The long long values of the number literals of the model.
Numbers64 == {Int64(0), Int64(1), Int64(-1), Int64(64), Int64(-70000), INT64_MAX, INT64_MIN}

\* The expressions handed to Evaluate.
Expressions ==
    LET leaves == {[form |-> "number", value |-> x] : x \in Numbers64}
                  \cup {[form |-> "string", text |-> "X"]}
                  \cup {[form |-> "identifier", name |-> n] :
                           n \in {"the_green", "wood", "brick", "bogus"}}
        once   == {[form |-> "minus", of |-> t] : t \in leaves}
    IN  leaves \cup once \cup {[form |-> "minus", of |-> t] : t \in once}

\* The groups of the named values of the node body: expressions and node groups.
FieldGroups ==
    {[form |-> "number", value |-> Int64(64)], [form |-> "string", text |-> "X"],
     [form |-> "identifier", name |-> "the_green"],
     [form |-> "minus", of |-> [form |-> "string", text |-> "X"]],
     [form |-> "node", class |-> "SpriteBlock"], [form |-> "node", class |-> "Strings"]}

FieldNames == {"tile_width", "se_e0"}

\* The field names ConvertSURFNode asks the sprites for: 'n' followed by
\* _surface_sprite[i].
SurfaceSpriteNames ==
    <<"n#", "n#n", "n#e", "n#ne", "n#s", "n#ns", "n#es", "n#nes", "n#w", "n#nw", "n#ew",
      "n#new", "n#sw", "n#nsw", "n#esw", "n#N", "n#E", "n#S", "n#W">>

\* The int a long long is assigned to: its low 32 bits, signed.
ToInt(v) ==
    IF v[3] >= 32768 THEN ((v[3] - 65536) * 65536) + v[4] ELSE (v[3] * 65536) + v[4]

\* The second loop of Values::PrepareNamedValues from the i-th named value
\* on, for a body of values with single names.
RECURSIVE PrepareNamedValues(_, _, _, _, _)
PrepareNamedValues(h, vals, values, i, symbols) ==
    IF i > Len(values) THEN [heap |-> h, vals |-> vals, err |-> NoDiag]
    ELSE LET g  == values[i].group
             p  == IF g.form = "node" THEN [heap |-> h, root |-> 0]
                   ELSE Parse(h, g, values[i].line)
             nv == [name |-> values[i].name, line |-> values[i].line, expr |-> p.root,
                    node |-> IF g.form = "node"
                             THEN [class |-> g.class, line |-> values[i].line, si |-> g.si]
                             ELSE NoNode]
             r  == PrepareNamedValue(p.heap, nv, symbols)
         IN  IF r.err # NoDiag THEN [heap |-> r.heap, vals |-> vals, err |-> r.err]
             ELSE PrepareNamedValues(r.heap, Append(vals, r.vi), values, i + 1, symbols)

\* The loop of ConvertSURFNode over the sprites, from the i-th on.
RECURSIVE GetSprites(_, _, _, _)
GetSprites(vals, ng, i, sprites) ==
    IF i > SURFACE_COUNT THEN [vals |-> vals, sprites |-> sprites, err |-> NoDiag]
    ELSE LET r == Values_GetSprite(vals, ng, SurfaceSpriteNames[i])
         IN  IF r.err # NoDiag THEN [vals |-> r.vals, sprites |-> sprites, err |-> r.err]
             ELSE GetSprites(r.vals, ng, i + 1, Append(sprites, r.value.si))

\* ConvertSURFNode
ConvertSURFNode(ng) ==
    LET p == PrepareNamedValues(<<>>, <<>>, ng.values, 1, _surface_types)
        a == Values_GetNumber(p.heap, p.vals, ng, "surf_type")
        b == Values_GetNumber(p.heap, a.vals, ng, "tile_width")
        c == Values_GetNumber(p.heap, b.vals, ng, "z_height")
        s == GetSprites(c.vals, ng, 1, <<>>)
    IN  IF p.err # NoDiag THEN [err |-> p.err, block |-> NoNode]
        ELSE IF a.err # NoDiag THEN [err |-> a.err, block |-> NoNode]
        ELSE IF b.err # NoDiag THEN [err |-> b.err, block |-> NoNode]
        ELSE IF c.err # NoDiag THEN [err |-> c.err, block |-> NoNode]
        ELSE IF s.err # NoDiag THEN [err |-> s.err, block |-> NoNode]
        ELSE [err |-> NoDiag,
              block |-> [tag |-> "SURF", surf_type |-> ToInt(a.value),
                         tile_width |-> ToInt(b.value), z_height |-> ToInt(c.value),
                         sprites |-> s.sprites]]

\* The surface types, tile widths and heights written in the SURF nodes.
SurfTypes ==
    {[form |-> "identifier", name |-> n] : n \in {"the_green", "short_grass", "sand", "wood"}}
        \cup {[form |-> "number", value |-> Int64(17)]}

TileWidths == {Int64(64), Int64(32), Int64(65600), Int64(-1)}

ZHeights == {Int64(16), Int64(8)}

\* The body of a SURF node: the three numeric fields in one of two orders,
\* named at lines 11 to 13, then the sprites (all 19, or all but the last).
SurfBody(st, tw, zh, reversed, nsprites) ==
    LET f1 == [name |-> "surf_type", group |-> st]
        f2 == [name |-> "tile_width", group |-> [form |-> "number", value |-> tw]]
        f3 == [name |-> "z_height", group |-> [form |-> "number", value |-> zh]]
        nums == IF reversed THEN <<f3, f2, f1>> ELSE <<f1, f2, f3>>
        sprs == [i \in 1..nsprites |->
                    [name |-> SurfaceSpriteNames[i],
                     group |-> [form |-> "node", class |-> "SpriteBlock",
                                si |-> Sprites(SURFACE_COUNT)[i]]]]
        all  == nums \o sprs
    IN  [i \in 1..Len(all) |-> [name |-> all[i].name, line |-> 10 + i, group |-> all[i].group]]

ValuesInit == WriterInit

\* Evaluate is called on a parsed expression (written at line 7).
CallEvaluate(t, symbols) ==
    /\ main_pc = "resolve"
    /\ v_pc = "begin"
    /\ v_heap = <<>>
    /\ \E p \in {Parse(<<>>, t, 7)} : \E r \in {Evaluate(p.heap, p.root, symbols)} :
           /\ v_heap' = r.heap
           /\ v_got' = [op |-> "Evaluate", expr |-> p.root, symbols |-> symbols,
                        parsed |-> p.heap, res |-> r.res]
           /\ IF r.err # NoDiag THEN Fatal(r.err) ELSE UNCHANGED <<main_pc, exit_code, diag>>
    /\ UNCHANGED <<v_pc, v_node, v_field, v_vals, v_pre, root, cur_file, file_nodes,
                   resolved, opened, out_files, wvars, evars, svars, dvars, ivars, nvars>>

\* A builder starts on a node group: Values vals(name, ng->line).
BeginNode(name, symbols) ==
    /\ main_pc = "resolve"
    /\ v_pc = "begin"
    /\ v_heap = <<>>
    /\ v_pc' = "prepare"
    /\ v_node' = [class |-> "NodeGroup", name |-> name, line |-> 10, symbols |-> symbols]
    /\ UNCHANGED <<v_heap, v_field, v_vals, v_pre, v_got, mvars, wvars, evars, svars, dvars, ivars, nvars>>

\* The line of the next value of the body.
NextLine == 10 + Len(v_vals) + Len(v_unnamed) + 1

\* PrepareNamedValues handles the next named value of the body.
AddField(name, g) ==
    /\ main_pc = "resolve"
    /\ v_pc = "prepare"
    /\ Len(v_vals) < MaxFields
    /\ \E p \in {IF g.form = "node" THEN [heap |-> v_heap, root |-> 0]
                 ELSE Parse(v_heap, g, NextLine)} :
       \E nv \in {[name |-> name, line |-> NextLine, expr |-> p.root,
                   node |-> IF g.form = "node"
                            THEN [class |-> g.class, line |-> NextLine]
                            ELSE NoNode]} :
       \E r \in {PrepareNamedValue(p.heap, nv, v_node.symbols)} :
           /\ v_field' = nv
           /\ v_heap' = r.heap
           /\ IF r.err # NoDiag THEN Fatal(r.err) /\ UNCHANGED v_vals
              ELSE /\ v_vals' = Append(v_vals, r.vi)
                   /\ UNCHANGED <<main_pc, exit_code, diag>>
    /\ UNCHANGED <<v_pc, v_node, v_pre, v_got, root, cur_file, file_nodes,
                   resolved, opened, out_files, wvars, evars, svars, dvars, ivars, nvars>>

\* PrepareNamedValues returns.
EndPrepare ==
    /\ main_pc = "resolve"
    /\ v_pc = "prepare"
    /\ v_pc' = "extract"
    /\ UNCHANGED <<v_node, v_heap, v_field, v_vals, v_pre, v_got, mvars, wvars, evars,
                   svars, dvars, ivars, nvars>>

\* The number of extractions made so far.
Gets == IF v_got = NoNode THEN 0 ELSE v_got.n

\* The builder calls vals.GetNumber, vals.GetString or vals.GetSprite.
Extract(call, fld_name) ==
    /\ main_pc = "resolve"
    /\ v_pc = "extract"
    /\ Gets < MaxGets
    /\ \E r \in {CASE call = "GetNumber" -> Values_GetNumber(v_heap, v_vals, v_node, fld_name)
                   [] call = "GetString" -> Values_GetString(v_heap, v_vals, v_node, fld_name)
                   [] call = "GetSprite" -> Values_GetSprite(v_vals, v_node, fld_name)} :
           /\ v_vals' = r.vals
           /\ v_got' = [op |-> call, fld_name |-> fld_name, n |-> Gets + 1,
                        idx |-> r.idx, value |-> r.value]
           /\ IF r.err # NoDiag THEN Fatal(r.err) ELSE UNCHANGED <<main_pc, exit_code, diag>>
    /\ v_pre' = v_vals
    /\ UNCHANGED <<v_pc, v_node, v_heap, v_field, root, cur_file, file_nodes,
                   resolved, opened, out_files, wvars, evars, svars, dvars, ivars, nvars>>

\* ConvertNodeGroup hands a SURF node at line 10 to ConvertSURFNode and the
\* block it returns is written (SURFBlock::Write) to a writer without blocks.
ConvertSURF(values) ==
    /\ main_pc = "resolve"
    /\ v_pc = "begin"
    /\ v_heap = <<>>
    /\ v_node' = [class |-> "NodeGroup", name |-> "SURF", line |-> 10,
                  symbols |-> _surface_types]
    /\ v_pc' = "done"
    /\ \E r \in {ConvertSURFNode([name |-> "SURF", line |-> 10, values |-> values])} :
           IF r.err # NoDiag
           THEN /\ Fatal(r.err)
                /\ v_got' = [op |-> "SURF", values |-> values, block |-> NoNode, fb |-> <<>>]
           ELSE /\ \E w \in {SURFBlock_Write(<<>>, r.block)} :
                       v_got' = [op |-> "SURF", values |-> values, block |-> r.block,
                                 fb |-> w.fb]
                /\ UNCHANGED <<main_pc, exit_code, diag>>
    /\ UNCHANGED <<v_heap, v_field, v_vals, v_pre, root, cur_file, file_nodes,
                   resolved, opened, out_files, wvars, evars, svars, dvars, ivars, nvars>>

\* _anim_symbols
_anim_symbols ==
    [null |-> FALSE,
     entries |-> <<[name |-> "pillar", value |-> 8], [name |-> "earth", value |-> 16],
                   [name |-> "walk_ne", value |-> 1], [name |-> "walk_se", value |-> 2],
                   [name |-> "walk_sw", value |-> 3], [name |-> "walk_nw", value |-> 4]>>]

\* The names of the fields of an ANIM node.
AnimFieldNames == {"person_type", "anim_type"}

\* The groups of the unnamed values of the node body.
UnnamedGroups ==
    {[form |-> "identifier", name |-> "walk_se"], [form |-> "identifier", name |-> "bogus"],
     [form |-> "node", class |-> "FrameData"], [form |-> "node", class |-> "SpriteBlock"]}

\* What ng->GetLine() can do when ng is a null pointer: GetLine is a virtual
\* function, so the call reads the object at address 0, which ends the
\* process, or it yields whatever number the read gives.
NullGetLine ==
    {[crash |-> TRUE, line |-> 0]} \cup {[crash |-> FALSE, line |-> l] : l \in {0, 12}}

\* One iteration of the second loop of Values::PrepareNamedValues for an
\* unnamed value: the outcomes it can have.  For a node group the entry has
\* the converted node and the group's line; for an expression group the
\* expression is evaluated and the line is asked of ng, which is NULL there.
PrepareUnnamedValue(h, nv, symbols) ==
    IF nv.expr = 0
    THEN {[heap |-> h, err |-> NoDiag, crash |-> FALSE,
           vi |-> [name |-> "???", line |-> nv.line, used |-> FALSE,
                   expr |-> 0, node |-> nv.node]]}
    ELSE LET r == Evaluate(h, nv.expr, symbols)
         IN  IF r.err # NoDiag
             THEN {[heap |-> r.heap, err |-> r.err, crash |-> FALSE, vi |-> NoNode]}
             ELSE {[heap |-> r.heap, err |-> NoDiag, crash |-> o.crash,
                    vi |-> [name |-> "???", line |-> o.line, used |-> FALSE,
                            expr |-> r.res, node |-> NoNode]] : o \in NullGetLine}

\* The calls of PrepareNamedValues that pass allow_unnamed = true.
AllowUnnamed(node_name) ==
    node_name \in {"PRSG", "ANIM", "ANSP", "person_graphics", "SHOP", "strings"}

\* PrepareNamedValues handles the next value of the body, an unnamed one;
\* v_field has the empty name for it.
AddUnnamed(g) ==
    /\ main_pc = "resolve"
    /\ v_pc = "prepare"
    /\ AllowUnnamed(v_node.name)
    /\ Len(v_unnamed) < MaxUnnamed
    /\ \E p \in {IF g.form = "node" THEN [heap |-> v_heap, root |-> 0]
                 ELSE Parse(v_heap, g, NextLine)} :
       \E nv \in {[name |-> "", line |-> NextLine, expr |-> p.root,
                   node |-> IF g.form = "node"
                            THEN [class |-> g.class, line |-> NextLine]
                            ELSE NoNode]} :
       \E r \in PrepareUnnamedValue(p.heap, nv, v_node.symbols) :
           /\ v_field' = nv
           /\ v_heap' = r.heap
           /\ IF r.err # NoDiag THEN Fatal(r.err) /\ UNCHANGED v_unnamed
              ELSE IF r.crash
              THEN /\ main_pc' = "exit"
                   /\ exit_code' = 139
                   /\ UNCHANGED <<diag, v_unnamed>>
              ELSE /\ v_unnamed' = Append(v_unnamed, r.vi)
                   /\ UNCHANGED <<main_pc, exit_code, diag>>
    /\ UNCHANGED <<v_pc, v_node, v_vals, v_pre, v_got, root, cur_file, file_nodes,
                   resolved, opened, out_files, wvars, evars, svars, dvars, ivars, tvars, cvars, pvars, bvars>>

\* The loop of a builder over the unnamed values: each must be a node of
\* the wanted class and is moved into the block, and the block may hold at
\* most cap of them; kind names the diagnostic of a node of another class.
TakeUnnamed(unnamed, wanted, cap, kind) ==
    LET n     == Len(unnamed)
        other == {i \in 1..n : unnamed[i].node.class # wanted}
        stop  == other \cup ((cap + 1)..n)
        k     == IF stop = {} THEN n + 1 ELSE Min(stop)
    IN  [unnamed |-> [i \in 1..n |-> IF i < k THEN [unnamed[i] EXCEPT !.used = TRUE, !.node = NoNode]
                                     ELSE IF i = k /\ k \notin other
                                     THEN [unnamed[i] EXCEPT !.node = NoNode]
                                     ELSE unnamed[i]],
         taken   |-> IF k \in other THEN k - 1 ELSE IF k > n THEN n ELSE k,
         err     |-> IF k > n THEN NoDiag
                     ELSE IF k \in other THEN Diag(kind, unnamed[k].line, <<>>)
                     ELSE Diag("too many", unnamed[k].line, <<>>)]

\* A VerifyUsage that does not look at the used flag of the named values.
VerifyUsage_Every(unnamed, named, node_name) ==
    LET u == SelectSeq(unnamed, LAMBDA vi : ~vi.used)
    IN  [i \in 1..Len(u) |-> Diag("unnamed value not used", u[i].line, <<node_name>>)]
        \o [i \in 1..Len(named) |->
               Diag("named value not used", named[i].line, <<named[i].name, node_name>>)]

\* Values::VerifyUsage: the warnings it prints, in order.
VerifyUsage(unnamed, named, node_name) ==
    LET u == SelectSeq(unnamed, LAMBDA vi : ~vi.used)
        v == SelectSeq(named, LAMBDA vi : ~vi.used)
    IN  [i \in 1..Len(u) |-> Diag("unnamed value not used", u[i].line, <<node_name>>)]
        \o [i \in 1..Len(v) |-> Diag("named value not used", v[i].line, <<v[i].name, node_name>>)]

\* The end of a builder: its loop over the unnamed values (ConvertANIMNode's
\* here) if the node may have them, then vals.VerifyUsage() and the return.
EndBuilder ==
    /\ main_pc = "resolve"
    /\ v_pc = "extract"
    /\ \E t \in {IF AllowUnnamed(v_node.name)
                 THEN TakeUnnamed(v_unnamed, "FrameData", 65535, "not a frame_data node")
                 ELSE [unnamed |-> v_unnamed, err |-> NoDiag]} :
           /\ v_unnamed' = t.unnamed
           /\ IF t.err # NoDiag
              THEN /\ Fatal(t.err)
                   /\ v_got' = [op |-> "VerifyUsage", n |-> Gets, called |-> FALSE,
                                warnings |-> <<>>]
                   /\ UNCHANGED v_pc
              ELSE /\ v_got' = [op |-> "VerifyUsage", n |-> Gets, called |-> TRUE,
                                warnings |-> VerifyUsage(t.unnamed, v_vals, v_node.name)]
                   /\ v_pc' = "done"
                   /\ UNCHANGED <<main_pc, exit_code, diag>>
    /\ UNCHANGED <<v_node, v_heap, v_field, v_vals, v_pre, root, cur_file, file_nodes,
                   resolved, opened, out_files, wvars, evars, svars, dvars, ivars, tvars, cvars, pvars, bvars>>

ValuesNext ==
    \/ \E st \in SurfTypes, tw \in TileWidths, zh \in ZHeights, reversed \in BOOLEAN,
          nsprites \in {SURFACE_COUNT - 1, SURFACE_COUNT} :
           ConvertSURF(SurfBody(st, tw, zh, reversed, nsprites))
    \/ \E t \in Expressions, symbols \in SymbolTables : CallEvaluate(t, symbols)
    \/ \E symbols \in {NoSymbols, _surface_types} : BeginNode("SURF", symbols)
    \/ \E name \in FieldNames, g \in FieldGroups : AddField(name, g)
    \/ EndPrepare
    \/ \E call \in {"GetNumber", "GetString", "GetSprite"}, name \in FieldNames :
           Extract(call, name)

SpecValues == ValuesInit /\ [][ValuesNext]_vars

\* SpecBody: the body of an ANIM node, which may hold named and unnamed
\* values, is prepared, its fields are extracted and the builder ends.
BodyNext ==
    \/ BeginNode("ANIM", _anim_symbols)
    \/ \E name \in AnimFieldNames : AddField(name, [form |-> "number", value |-> Int64(64)])
    \/ \E g \in UnnamedGroups : AddUnnamed(g)
    \/ EndPrepare
    \/ \E name \in AnimFieldNames : Extract("GetNumber", name)
    \/ EndBuilder

SpecBody == ValuesInit /\ [][BodyNext]_vars

\* The table entries with the name of the identifier, none for a NULL table.
EntriesNamed(symbols, name) ==
    IF symbols.null THEN {}
    ELSE {i \in 1..Len(symbols.entries) : symbols.entries[i].name = name}

\* C12: evaluating an identifier yields a number literal with the identifier's
\* line and the value of the first table entry of that name; without a table
\* or without such an entry it is a fatal error at the identifier's line.
C12_IdentifierEvaluation ==
    (v_got # NoNode /\ v_got.op = "Evaluate"
        /\ v_got.parsed[v_got.expr].kind = "identifier") =>
        LET id   == v_got.parsed[v_got.expr]
            hits == EntriesNamed(v_got.symbols, id.name)
        IN  IF hits = {}
            THEN /\ main_pc = "exit"
                 /\ exit_code = 1
                 /\ diag.kind = "unknown identifier"
                 /\ diag.lines = <<id.line>>
            ELSE /\ main_pc = "resolve"
                 /\ v_heap[v_got.res].kind = "number"
                 /\ v_heap[v_got.res].line = id.line
                 /\ \E i \in hits :
                        /\ \A j \in hits : i <= j
                        /\ v_heap[v_got.res].value = Int64(v_got.symbols.entries[i].value)

\* The identifier wood was evaluated with the table that has it twice.
C12_Witness ==
    /\ v_got # NoNode
    /\ v_got.op = "Evaluate"
    /\ v_got.parsed[v_got.expr] = IdentifierLiteral(7, "wood")
    /\ v_got.symbols = RepeatingSymbols
    /\ v_heap[v_got.res] = NumberLiteral(7, Int64(16))

\* Evaluate was called on -(-x) for a number literal x.
IsDoubleMinus ==
    /\ v_got # NoNode
    /\ v_got.op = "Evaluate"
    /\ v_got.parsed[v_got.expr].kind = "unary"
    /\ v_got.parsed[v_got.parsed[v_got.expr].child].kind = "unary"
    /\ v_got.parsed[v_got.parsed[v_got.parsed[v_got.expr].child].child].kind = "number"

\* C13: evaluating -(-x) yields a new number literal with the value x, the
\* objects of the expression are as they were before (the literal still
\* holds x), and evaluating the expression again yields x again.
C13_DoubleNegation ==
    IsDoubleMinus =>
        LET x == v_got.parsed[v_got.parsed[v_got.parsed[v_got.expr].child].child].value
            again == Evaluate(v_heap, v_got.expr, v_got.symbols)
        IN  /\ main_pc = "resolve"
            /\ v_got.res > Len(v_got.parsed)
            /\ v_heap[v_got.res].kind = "number"
            /\ v_heap[v_got.res].value = x
            /\ \A i \in 1..Len(v_got.parsed) : v_heap[i] = v_got.parsed[i]
            /\ again.err = NoDiag
            /\ again.heap[again.res].value = x
            /\ again.res # v_got.res

\* -(-x) was evaluated for the least long long.
C13_Witness ==
    /\ IsDoubleMinus
    /\ v_got.parsed[1].value = INT64_MIN
    /\ v_heap[v_got.res].value = INT64_MIN

\* The last extraction asked for a number or a string and found an entry
\* that holds something else: a string or a node, or a number or a node.
TypeMismatch ==
    /\ v_got # NoNode
    /\ v_got.op \in {"GetNumber", "GetString"}
    /\ v_got.idx # 0
    /\ \/ v_pre[v_got.idx].expr = 0
       \/ /\ v_pre[v_got.idx].expr # 0
          /\ v_heap[v_pre[v_got.idx].expr].kind =
                 (IF v_got.op = "GetNumber" THEN "string" ELSE "number")

\* C14, as claimed: a type mismatch is fatal and the line of the diagnostic
\* is the line of the field's name, not the line of the enclosing node.
C14_MismatchAtFieldLine ==
    TypeMismatch =>
        /\ main_pc = "exit"
        /\ exit_code = 1
        /\ diag.lines = <<v_pre[v_got.idx].line>>

\* C14, amended: a type mismatch is fatal and the line of the diagnostic is
\* the line of the enclosing node, not the line of the field's name; the
\* diagnostic names the field and the node.
C14_MismatchAtNodeLine ==
    TypeMismatch =>
        /\ main_pc = "exit"
        /\ exit_code = 1
        /\ diag.kind = (IF v_got.op = "GetNumber" THEN "not a numeric value"
                        ELSE "not a string value")
        /\ diag.lines = <<v_node.line>>
        /\ v_node.line # v_pre[v_got.idx].line
        /\ diag.strs = <<v_got.fld_name, v_node.name>>

\* The second field, a string, was extracted as a number.
C14_Witness ==
    /\ TypeMismatch
    /\ v_got.op = "GetNumber"
    /\ v_got.idx = 2
    /\ v_pre[2].expr # 0
    /\ v_heap[v_pre[2].expr].kind = "string"
    /\ diag.lines = <<10>>

\* A sprite has been extracted from an entry of that name.
SpriteTaken(vals, name) ==
    \E i \in 1..Len(vals) :
        vals[i].name = name /\ vals[i].used /\ vals[i].expr = 0 /\ vals[i].node = NoNode

\* The transfer of C15: a sprite extraction that returns hands over the
\* sub-node of the entry, marks the entry used and leaves it without a node.
SpriteTransferred ==
    (v_got # NoNode /\ v_got.op = "GetSprite" /\ main_pc = "resolve") =>
        /\ v_got.idx # 0
        /\ v_got.value = v_pre[v_got.idx].node
        /\ v_got.value.class = "SpriteBlock"
        /\ v_vals[v_got.idx].used
        /\ v_vals[v_got.idx].node = NoNode

\* C15, as claimed: the transfer, and extracting a sprite a second time
\* under the same field name is a fatal error.
C15_SecondExtractionFatal ==
    /\ SpriteTransferred
    /\ (v_got # NoNode /\ v_got.op = "GetSprite" /\ SpriteTaken(v_pre, v_got.fld_name)) =>
           main_pc = "exit" /\ exit_code = 1

\* C15, amended: the transfer, and extracting a sprite a second time under
\* the same field name is a fatal error (no value found, at the node's
\* line) unless the body holds another value of that name not used yet;
\* then the first such value is the one extracted.
C15_SecondExtractionFatalUnlessRepeated ==
    /\ SpriteTransferred
    /\ (v_got # NoNode /\ v_got.op = "GetSprite" /\ SpriteTaken(v_pre, v_got.fld_name)) =>
           LET unused == {i \in 1..Len(v_pre) :
                             v_pre[i].name = v_got.fld_name /\ ~v_pre[i].used}
           IN  IF unused = {}
               THEN /\ main_pc = "exit"
                    /\ exit_code = 1
                    /\ diag = Diag("cannot find", v_node.line, <<v_got.fld_name, v_node.name>>)
               ELSE /\ v_got.idx \in unused
                    /\ \A i \in unused : v_got.idx <= i
                    /\ (v_pre[v_got.idx].node.class = "SpriteBlock") <=> (main_pc = "resolve")

\* A sprite was extracted from the only value called se_e0, and the second
\* extraction under that name ended the run.
C15_Witness ==
    /\ v_got # NoNode
    /\ v_got.op = "GetSprite"
    /\ v_got.fld_name = "se_e0"
    /\ v_got.n = 2
    /\ SpriteTaken(v_pre, "se_e0")
    /\ Cardinality({i \in 1..Len(v_pre) : v_pre[i].name = "se_e0"}) = 1
    /\ main_pc = "exit"
    /\ diag.kind = "cannot find"

\* The node of the scenario: surf_type: the_green, tile_width: 64,
\* z_height: 16 and the 19 sprites, converted and written.
GreenSurfWritten ==
    /\ v_got # NoNode
    /\ v_got.op = "SURF"
    /\ \E reversed \in BOOLEAN :
           v_got.values = SurfBody([form |-> "identifier", name |-> "the_green"],
                                   Int64(64), Int64(16), reversed, SURFACE_COUNT)
    /\ main_pc = "resolve"

\* The group of the named value of that name in the body.
GroupOf(values, name) ==
    (CHOOSE f \in {values[i] : i \in 1..Len(values)} : f.name = name).group

\* The 16-bit number a written field stands for: the low 16 bits of a
\* number literal, or the value the table gives the identifier.
WrittenAs(g) ==
    IF g.form = "number" THEN g.value[4]
    ELSE (CHOOSE e \in {_surface_types.entries[i] : i \in 1..Len(_surface_types.entries)} :
              e.name = g.name).value

\* C11, as claimed: the payload of the SURF block of the scenario begins
\* with 11 00 40 00 10 00 (the_green resolves to 17).
C11_GreenIs17 ==
    GreenSurfWritten => SubSeq(v_got.fb, 13, 18) = <<17, 0, 64, 0, 16, 0>>

\* C11, amended: the payload of the SURF block of the scenario begins with
\* 10 00 40 00 10 00 (the_green resolves to 16), and the payload of every
\* SURF block begins with surf_type, tile_width and z_height in this order,
\* each an unsigned 16-bit number, low byte first.
C11_GreenIs16 ==
    /\ GreenSurfWritten => SubSeq(v_got.fb, 13, 18) = <<16, 0, 64, 0, 16, 0>>
    /\ (v_got # NoNode /\ v_got.op = "SURF" /\ main_pc = "resolve") =>
           \A k \in 1..3 :
               LET n == WrittenAs(GroupOf(v_got.values,
                                          <<"surf_type", "tile_width", "z_height">>[k]))
               IN  /\ v_got.fb[12 + (2 * k) - 1] = n % 256
                   /\ v_got.fb[12 + (2 * k)] = n \div 256

\* The node of the scenario was written with z_height as its first field.
C11_Witness ==
    /\ GreenSurfWritten
    /\ v_got.values[1].name = "z_height"
    /\ v_got.block.surf_type = 16
    /\ Len(v_got.fb) = 94

----------------------------------------------------------------------------
(* image.cpp: an Image is [width, height, rows], rows[y + 1][x + 1] being  *)
(* the palette index of the pixel (x, y); no bit mask is applied.  A       *)
(* block of sprite data is a sequence of bytes, or Null.                   *)

TRANSPARENT_INDEX == 0

\* Image::GetPixel (without a mask)
GetPixel(img, x, y) == img.rows[y + 1][x + 1]

\* Image::IsTransparent
IsTransparent(img, xpos, ypos) == GetPixel(img, xpos, ypos) = TRANSPARENT_INDEX

\* Image::IsEmpty
IsEmpty(img, xpos, ypos, dx, dy, length) ==
    \A i \in 0..(length - 1) : IsTransparent(img, xpos + (i * dx), ypos + (i * dy))

\* WriteUInt32
WriteUInt32(value) == LE(value, 4)

\* The for loop of a row reaches the next pixel to draw at or after x:
\* its position, or width if there is none.
NextStart(img, xpos, ypos, width, y, x) ==
    LET S == {i \in x..(width - 1) : ~IsTransparent(img, xpos + i, ypos + y)}
    IN  IF S = {} THEN width ELSE Min(S)

\* The inner while loop: the first transparent position after start, or width.
RunEnd(img, xpos, ypos, width, y, start) ==
    LET S == {i \in (start + 1)..(width - 1) : IsTransparent(img, xpos + i, ypos + y)}
    IN  IF S = {} THEN width ELSE Min(S)

\* The colour indices of the pixels from..(to - 1) of row y of the region.
Colours(img, xpos, ypos, y, from, to) ==
    [i \in 1..(to - from) |-> GetPixel(img, xpos + from + i - 1, ypos + y)]

\* while (last_stored + 128 < start): a gap loop that lets a gap of 128 pass.
RECURSIVE GapRuns_128(_, _)
GapRuns_128(last_stored, start) ==
    IF last_stored + 128 < start
    THEN LET r == GapRuns_128(last_stored + 127, start)
         IN  [bytes |-> <<127, 0>> \o r.bytes, last_stored |-> r.last_stored]
    ELSE [bytes |-> <<>>, last_stored |-> last_stored]

\* while (last_stored + 127 < start): runs of a gap of 127 and no pixels.
RECURSIVE GapRuns(_, _)
GapRuns(last_stored, start) ==
    IF last_stored + 127 < start
    THEN LET r == GapRuns(last_stored + 127, start)
         IN  [bytes |-> <<127, 0>> \o r.bytes, last_stored |-> r.last_stored]
    ELSE [bytes |-> <<>>, last_stored |-> last_stored]

\* while (x - start > 255): runs of 255 pixels.
RECURSIVE FullRuns(_, _, _, _, _, _, _)
FullRuns(img, xpos, ypos, y, last_stored, start, x) ==
    IF x - start > 255
    THEN LET r == FullRuns(img, xpos, ypos, y, start + 255, start + 255, x)
         IN  [bytes |-> <<start - last_stored, 255>>
                            \o Colours(img, xpos, ypos, y, start, start + 255) \o r.bytes,
              start |-> r.start, last_stored |-> r.last_stored]
    ELSE [bytes |-> <<>>, start |-> start, last_stored |-> last_stored]

\* The for loop over x of the second pass of Image::Encode for row y, from
\* position x on: the bytes written and the place of the last header in
\* them (0 for nullptr).
RECURSIVE EncodeRowFrom(_, _, _, _, _, _, _, _, _)
EncodeRowFrom(img, xpos, ypos, width, y, x, last_stored, bytes, last_header) ==
    LET start == NextStart(img, xpos, ypos, width, y, x)
    IN  IF start >= width THEN [bytes |-> bytes, last_header |-> last_header]
        ELSE LET end == RunEnd(img, xpos, ypos, width, y, start)
                 g   == GapRuns(last_stored, start)
                 f   == FullRuns(img, xpos, ypos, y, g.last_stored, start, end)
                 b   == bytes \o g.bytes \o f.bytes
             IN  EncodeRowFrom(img, xpos, ypos, width, y, end + 1, end,
                               b \o <<f.start - f.last_stored, end - f.start>>
                                 \o Colours(img, xpos, ypos, y, f.start, end),
                               Len(b) + 1)

\* The end of row mark set on the first run of the row.
MarkLast_First(bytes, last_header) ==
    [bytes EXCEPT ![1] = IF @ >= 128 THEN @ ELSE @ + 128]

\* *last_header |= 128
MarkLast(bytes, last_header) ==
    [bytes EXCEPT ![last_header] = IF @ >= 128 THEN @ ELSE @ + 128]

\* The bytes of row y written by the second pass of Image::Encode.
EncodeRow(img, xpos, ypos, width, y) ==
    LET r == EncodeRowFrom(img, xpos, ypos, width, y, 0, 0, <<>>, 0)
    IN  IF r.last_header = 0 THEN r.bytes ELSE MarkLast(r.bytes, r.last_header)

\* The for loop over x of the first pass of Image::Encode for row y: the
\* length of the data of the row.  Its two while loops have the conditions
\* and steps of those of the second pass and add the number of bytes that
\* the second pass writes in them.
RECURSIVE RowLengthFrom(_, _, _, _, _, _, _, _)
RowLengthFrom(img, xpos, ypos, width, y, x, last_stored, length) ==
    LET start == NextStart(img, xpos, ypos, width, y, x)
    IN  IF start >= width THEN length
        ELSE LET end == RunEnd(img, xpos, ypos, width, y, start)
                 g   == GapRuns(last_stored, start)
                 f   == FullRuns(img, xpos, ypos, y, g.last_stored, start, end)
             IN  RowLengthFrom(img, xpos, ypos, width, y, end + 1, end,
                               length + Len(g.bytes) + Len(f.bytes) + 2 + (end - f.start))

\* The concatenation of the sequences of a sequence.
RECURSIVE Concat(_)
Concat(ss) == IF ss = <<>> THEN <<>> ELSE Head(ss) \o Concat(Tail(ss))

\* The sum of the numbers of a sequence.
RECURSIVE Sum(_)
Sum(ns) == IF ns = <<>> THEN 0 ELSE Head(ns) + Sum(Tail(ns))

\* An Encode whose jump table counts from the end of the table.
Encode_FromTableEnd(img, xpos, ypos, width, height) ==
    LET row_sizes == [y \in 1..height |->
                         RowLengthFrom(img, xpos, ypos, width, y - 1, 0, 0, 0)]
        data_size == Sum(row_sizes)
        jump == [y \in 1..height |->
                    WriteUInt32(IF row_sizes[y] = 0 THEN 0
                                ELSE Sum(SubSeq(row_sizes, 1, y - 1)))]
        rows == [y \in 1..height |->
                    IF row_sizes[y] = 0 THEN <<>>
                    ELSE EncodeRow(img, xpos, ypos, width, y - 1)]
        data == Concat(jump) \o Concat(rows)
    IN  IF data_size = 0 THEN [data |-> Null, size |-> 0, assert_ok |-> TRUE]
        ELSE [data |-> data, size |-> data_size + (4 * height),
              assert_ok |-> /\ Len(data) = data_size + (4 * height)
                            /\ \A y \in 1..height : row_sizes[y] <= 65535]

\* Image::Encode: the data (Null for an empty sprite), *size, and whether
\* the assertions held.
Encode(img, xpos, ypos, width, height) ==
    LET row_sizes == [y \in 1..height |->
                         RowLengthFrom(img, xpos, ypos, width, y - 1, 0, 0, 0)]
        data_size == Sum(row_sizes)
        jump == [y \in 1..height |->
                    WriteUInt32(IF row_sizes[y] = 0 THEN 0
                                ELSE (4 * height) + Sum(SubSeq(row_sizes, 1, y - 1)))]
        rows == [y \in 1..height |->
                    IF row_sizes[y] = 0 THEN <<>>
                    ELSE EncodeRow(img, xpos, ypos, width, y - 1)]
        data == Concat(jump) \o Concat(rows)
    IN  IF data_size = 0 THEN [data |-> Null, size |-> 0, assert_ok |-> TRUE]
        ELSE [data |-> data, size |-> data_size + (4 * height),
              assert_ok |-> /\ Len(data) = data_size + (4 * height)
                            /\ \A y \in 1..height : row_sizes[y] <= 65535]

\* SpriteImage::CopySprite, the cropping loops: left columns, top rows,
\* right columns, bottom rows.  r is [xpos, ypos, xsize, ysize, xoffset, yoffset].
RECURSIVE CropLeft(_, _)
CropLeft(img, r) ==
    IF r.xsize > 0 /\ IsEmpty(img, r.xpos, r.ypos, 0, 1, r.ysize)
    THEN CropLeft(img, [r EXCEPT !.xpos = @ + 1, !.xsize = @ - 1, !.xoffset = @ + 1])
    ELSE r

RECURSIVE CropTop(_, _)
CropTop(img, r) ==
    IF r.ysize > 0 /\ IsEmpty(img, r.xpos, r.ypos, 1, 0, r.xsize)
    THEN CropTop(img, [r EXCEPT !.ypos = @ + 1, !.ysize = @ - 1, !.yoffset = @ + 1])
    ELSE r

\* A crop of the right columns that removes nothing.
CropRight_None(img, r) == r

RECURSIVE CropRight(_, _)
CropRight(img, r) ==
    IF r.xsize > 0 /\ IsEmpty(img, r.xpos + r.xsize - 1, r.ypos, 0, 1, r.ysize)
    THEN CropRight(img, [r EXCEPT !.xsize = @ - 1])
    ELSE r

RECURSIVE CropBottom(_, _)
CropBottom(img, r) ==
    IF r.ysize > 0 /\ IsEmpty(img, r.xpos, r.ypos + r.ysize - 1, 1, 0, r.xsize)
    THEN CropBottom(img, [r EXCEPT !.ysize = @ - 1])
    ELSE r

\* Range checks without the check of the starting position against the
\* size of the image.
RangeError_NoBeyond(img, xpos, ypos, xsize, ysize) ==
    IF xpos < 0 \/ ypos < 0 THEN "Negative starting position"
    ELSE IF xsize < 0 \/ ysize < 0 THEN "Negative image size"
    ELSE IF xpos + xsize > img.width THEN "Sprite too wide"
    ELSE IF ypos + ysize > img.height THEN "Sprite too high"
    ELSE ""

\* The range checks of SpriteImage::CopySprite: the message, "" for none.
RangeError(img, xpos, ypos, xsize, ysize) ==
    IF xpos < 0 \/ ypos < 0 THEN "Negative starting position"
    ELSE IF xpos >= img.width \/ ypos >= img.height THEN "Starting position beyond image"
    ELSE IF xsize < 0 \/ ysize < 0 THEN "Negative image size"
    ELSE IF xpos + xsize > img.width THEN "Sprite too wide"
    ELSE IF ypos + ysize > img.height THEN "Sprite too high"
    ELSE ""

\* SpriteImage::CopySprite on the sprite spr: the sprite afterwards and the
\* message returned ("" for nullptr) and whether the assertions of Encode held.
CopySprite(spr, img, xoffset, yoffset, xpos, ypos, xsize, ysize, crop) ==
    LET old  == [spr EXCEPT !.data = Null, !.data_size = 0, !.height = 0]
        err  == RangeError(img, xpos, ypos, xsize, ysize)
        r0   == [xpos |-> xpos, ypos |-> ypos, xsize |-> xsize, ysize |-> ysize,
                 xoffset |-> xoffset, yoffset |-> yoffset]
        r    == IF crop THEN CropBottom(img, CropRight(img, CropTop(img, CropLeft(img, r0))))
                ELSE r0
        e    == Encode(img, r.xpos, r.ypos, r.xsize, r.ysize)
    IN  IF err # "" THEN [sprite |-> old, err |-> err, assert_ok |-> TRUE]
        ELSE IF r.xsize = 0 \/ r.ysize = 0
        THEN [sprite |-> [data |-> Null, data_size |-> 0, width |-> 0, height |-> 0,
                          xoffset |-> 0, yoffset |-> 0],
              err |-> "", assert_ok |-> TRUE]
        ELSE CHOOSE v \in {[sprite |-> [data |-> x.data, data_size |-> x.size,
                                         width |-> r.xsize, height |-> r.ysize,
                                         xoffset |-> r.xoffset, yoffset |-> r.yoffset],
                             err |-> "", assert_ok |-> x.assert_ok] : x \in {e}} : TRUE

----------------------------------------------------------------------------
(* SpecImage: CopySprite is called on a new SpriteImage, as GetSubNode     *)
(* does, with a rectangle inside, across or outside the image.             *)

\* n pixels of the colour v.
Run(n, v) == [i \in 1..n |-> v]

Img(rows) == [width |-> Len(rows[1]), height |-> Len(rows), rows |-> rows]

\* Images of 4 by 3 pixels: empty, one pixel, pixels with empty margins,
\* pixels in the corners, no transparent pixel.
SmallImages ==
    {Img(<<<<0, 0, 0, 0>>, <<0, 0, 0, 0>>, <<0, 0, 0, 0>>>>),
     Img(<<<<0, 0, 0, 0>>, <<0, 0, 5, 0>>, <<0, 0, 0, 0>>>>),
     Img(<<<<0, 0, 0, 0>>, <<0, 1, 0, 2>>, <<0, 0, 3, 0>>>>),
     Img(<<<<4, 0, 0, 6>>, <<0, 0, 0, 0>>, <<6, 0, 0, 4>>>>),
     Img(<<<<7, 8, 9, 7>>, <<1, 2, 3, 1>>, <<9, 9, 9, 9>>>>)}

\* Images with gaps of 127 and more transparent pixels and runs of more
\* than 255 pixels to draw.
LongImages ==
    {Img(<<Run(127, 0) \o <<5>> >>),
     Img(<<Run(128, 0) \o <<5>> >>),
     Img(<<Run(256, 3)>>),
     Img(<<Run(255, 0) \o Run(511, 2) \o <<0, 9>> >>),
     Img(<<Run(560, 0), Run(300, 0) \o Run(255, 1) \o Run(5, 0)>>)}

ImageInit == WriterInit

\* spr_blk->sprite_image.CopySprite(img, ...) on a new sprite; one call is
\* followed.
CallCopySprite(img, xoffset, yoffset, xpos, ypos, xsize, ysize, crop) ==
    /\ sh_blk = NoNode
    /\ sp_call = NoNode
    /\ \E r \in {CopySprite([data |-> Null, data_size |-> 0, width |-> 0, height |-> 0,
                             xoffset |-> 0, yoffset |-> 0],
                            img, xoffset, yoffset, xpos, ypos, xsize, ysize, crop)} :
           /\ sprite_image' = r.sprite
           /\ sp_call' = [img |-> img, xoffset |-> xoffset, yoffset |-> yoffset,
                          xpos |-> xpos, ypos |-> ypos, xsize |-> xsize, ysize |-> ysize,
                          crop |-> crop, err |-> r.err, assert_ok |-> r.assert_ok]
    /\ UNCHANGED <<sh_blk, sh_loads, sh_calls, sh_assign, mvars, svars, dvars, vvars, wvars, evars, nvars>>

ImageNext ==
    \/ /\ sp_call = NoNode
       /\ \E img \in SmallImages, off \in {<<0, 0>>, <<-2, 7>>}, crop \in BOOLEAN :
          \E xpos \in (-1)..img.width, ypos \in (-1)..img.height,
             xsize \in (-1)..(img.width + 1), ysize \in (-1)..(img.height + 1) :
              CallCopySprite(img, off[1], off[2], xpos, ypos, xsize, ysize, crop)
    \/ /\ sp_call = NoNode
       /\ \E img \in LongImages :
              CallCopySprite(img, -2, 7, 0, 0, img.width, img.height, FALSE)

SpecImage == ImageInit /\ [][ImageNext]_vars

\* The decoder of sprite data: the runs of a row from the byte at place p
\* on; each run skips (gap byte mod 128) transparent pixels and copies
\* count bytes, and the run whose gap byte has its high bit set is the last.
\* Data that ends inside a run gives a pixel -1.
RECURSIVE DecodeRuns(_, _, _)
DecodeRuns(data, p, out) ==
    IF p + 1 > Len(data) THEN Append(out, -1)
    ELSE IF p + 1 + data[p + 1] > Len(data) THEN Append(out, -1)
    ELSE LET px == out \o Run(data[p] % 128, 0) \o SubSeq(data, p + 2, p + 1 + data[p + 1])
         IN  IF data[p] >= 128 THEN px ELSE DecodeRuns(data, p + 2 + data[p + 1], px)

\* Row y (from 0) of the decoded sprite: transparent if its entry of the
\* jump table is 0, else its runs and transparent pixels up to the width.
DecodeRow(data, y, width) ==
    LET entry == DecodeLE(data, 4 * y, 4)
    IN  IF entry = 0 THEN Run(width, 0)
        ELSE LET px == DecodeRuns(data, entry + 1, <<>>)
             IN  px \o Run(width - Len(px), 0)

Decode(data, width, height) == [y \in 1..height |-> DecodeRow(data, y - 1, width)]

\* The palette indices of a rectangle of the image.
Region(img, xpos, ypos, width, height) ==
    [y \in 1..height |-> [x \in 1..width |-> GetPixel(img, xpos + x - 1, ypos + y - 1)]]

\* The pixels to draw of the rectangle of the last call.
Opaque ==
    {p \in (sp_call.xpos..(sp_call.xpos + sp_call.xsize - 1))
              \X (sp_call.ypos..(sp_call.ypos + sp_call.ysize - 1)) :
        GetPixel(sp_call.img, p[1], p[2]) # 0}

\* The last call returned without an error.
Copied == sp_call # NoNode /\ sp_call.err = ""

RowPixels(y) ==
    [x \in 1..sp_call.xsize |-> GetPixel(sp_call.img, sp_call.xpos + x - 1, sp_call.ypos + y)]

\* The runs a row of pixels asks for, from position pos on with the row
\* covered up to last: for each stretch of pixels to draw, runs of gap 127
\* without pixels while more than 127 pixels are to be skipped, runs of
\* 255 pixels while more than 255 are left, and a run with the rest.
RECURSIVE RunsWanted(_, _, _)
RunsWanted(px, pos, last) ==
    LET S   == {i \in pos..(Len(px) - 1) : px[i + 1] # TRANSPARENT_INDEX}
        s   == Min(S)
        T   == {i \in s..(Len(px) - 1) : px[i + 1] = TRANSPARENT_INDEX}
        e   == IF T = {} THEN Len(px) ELSE Min(T)
        gap == s - last
        k   == IF gap = 0 THEN 0 ELSE (gap - 1) \div 127
        n   == e - s
        m   == (n - 1) \div 255
    IN  IF S = {} THEN <<>>
        ELSE [i \in 1..k |-> [gap |-> 127, count |-> 0, colours |-> <<>>]]
             \o [i \in 1..m |-> [gap |-> IF i = 1 THEN gap - 127 * k ELSE 0, count |-> 255,
                                 colours |-> SubSeq(px, s + 255 * (i - 1) + 1, s + 255 * i)]]
             \o <<[gap |-> IF m = 0 THEN gap - 127 * k ELSE 0, count |-> n - 255 * m,
                   colours |-> SubSeq(px, s + 255 * m + 1, e)]>>
             \o RunsWanted(px, e + 1, e)

\* The runs found in sprite data from the byte at place p (from 0) on, up
\* to the run with the end of row mark; data that ends inside a run gives
\* a run with count -1.
RECURSIVE RunsAt(_, _)
RunsAt(data, p) ==
    IF p + 2 > Len(data) \/ p + 2 + data[p + 2] > Len(data)
    THEN <<[gap |-> 0, count |-> -1, colours |-> <<>>, last |-> TRUE]>>
    ELSE LET run == [gap |-> data[p + 1] % 128, count |-> data[p + 2],
                     colours |-> SubSeq(data, p + 3, p + 2 + data[p + 2]),
                     last |-> data[p + 1] >= 128]
         IN  IF run.last THEN <<run>> ELSE <<run>> \o RunsAt(data, p + 2 + data[p + 2])

\* The number of bytes of a sequence of runs.
RECURSIVE SizeOfRuns(_)
SizeOfRuns(runs) ==
    IF runs = <<>> THEN 0 ELSE 2 + Head(runs).count + SizeOfRuns(Tail(runs))

\* The entry of row y (from 0) in the jump table of the sprite.
JumpEntry(y) == DecodeLE(sprite_image.data, 4 * y, 4)

\* A region with a pixel to draw has been encoded as it was given.
Encoded == Copied /\ ~sp_call.crop /\ Opaque # {}

NegativeOrBeyond ==
    \/ sp_call.xpos < 0 \/ sp_call.ypos < 0 \/ sp_call.xsize < 0 \/ sp_call.ysize < 0
    \/ sp_call.xpos + sp_call.xsize > sp_call.img.width
    \/ sp_call.ypos + sp_call.ysize > sp_call.img.height

----------------------------------------------------------------------------
(* Sprite sheets: SheetBlock (nodes.cpp) and AssignNames (check_data.cpp). *)
(* A name is a sequence of characters; an Image object is known by the     *)
(* number of the LoadFile call that filled it, 0 standing for NULL.        *)

\* The sheet image on the disk: 6 by 5 pixels.
SheetImage ==
    Img(<<<<1, 0, 2, 2, 0, 0>>, <<0, 0, 2, 2, 3, 0>>, <<4, 4, 0, 0, 0, 0>>,
          <<4, 0, 0, 5, 0, 6>>, <<0, 0, 0, 0, 0, 0>>>>)

\* Image::LoadFile as the disk decides it: the message, "" for NULL.
LoadFile(file) == IF file = "sheet.png" THEN "" ELSE "Input file does not exist"

\* A GetSheet that loads the file at every call.
GetSheet_Reload(sb, loads) ==
    [sb |-> [sb EXCEPT !.img_sheet = loads + 1], loads |-> loads + 1,
     img |-> loads + 1,
     err |-> IF LoadFile(sb.file) # ""
             THEN Diag("loading of the sheet-image failed", sb.line, <<LoadFile(sb.file)>>)
             ELSE NoDiag]

\* SheetBlock::GetSheet
GetSheet(sb, loads) ==
    IF sb.img_sheet # 0
    THEN [sb |-> sb, loads |-> loads, img |-> sb.img_sheet, err |-> NoDiag]
    ELSE [sb |-> [sb EXCEPT !.img_sheet = loads + 1], loads |-> loads + 1,
          img |-> loads + 1,
          err |-> IF LoadFile(sb.file) # ""
                  THEN Diag("loading of the sheet-image failed", sb.line,
                            <<LoadFile(sb.file)>>)
                  ELSE NoDiag]

\* SheetBlock::GetSubNode: the sheet, the number of loads, the record of
\* the call (the Image used, the rectangle handed to CopySprite, the new
\* sprite block) and the fatal error, if any.  The call hands CopySprite
\* seven arguments; sb.crop is the eighth, whose default value image.h
\* declares.
GetSubNode(sb, loads, row, col, name, line) ==
    LET g    == GetSheet(sb, loads)
        xpos == sb.x_base + (sb.x_step * col)
        ypos == sb.y_base + (sb.y_step * row)
        c    == CopySprite([data |-> Null, data_size |-> 0, width |-> 0, height |-> 0,
                            xoffset |-> 0, yoffset |-> 0],
                           SheetImage, sb.x_offset, sb.y_offset, xpos, ypos,
                           sb.width, sb.height, sb.crop)
        call == [row |-> row, col |-> col, name |-> name, line |-> line, img |-> g.img,
                 rect |-> <<xpos, ypos, sb.width, sb.height>>]
    IN  IF g.err # NoDiag
        THEN [sb |-> g.sb, loads |-> g.loads, err |-> g.err,
              call |-> [call EXCEPT !.rect = <<>>], node |-> NoNode]
        ELSE IF c.err # ""
        THEN [sb |-> g.sb, loads |-> g.loads, call |-> call, node |-> NoNode,
              err |-> Diag("loading of the sprite failed", line, <<name, c.err>>)]
        ELSE [sb |-> g.sb, loads |-> g.loads, call |-> call, err |-> NoDiag,
              node |-> [class |-> "SpriteBlock", si |-> c.sprite]]

\* IdentifierLine::IsValid
IsValid(il) ==
    IF il.null THEN FALSE
    ELSE IF il.name = <<>> \/ il.name[1] = "_" THEN FALSE
    ELSE TRUE

\* The cells of a name table numbered by the valid cells before them only.
Cells_CountValid(nt) ==
    Concat([r \in 1..Len(nt) |->
               [c \in 1..Len(nt[r]) |->
                   [row |-> r - 1,
                    col |-> Cardinality({k \in 1..(c - 1) : IsValid(nt[r][k])}),
                    il |-> nt[r][c]]]])

\* The cells the two loops of AssignNames visit, in their order, with the
\* values of the counters row and col at each.
Cells(nt) ==
    Concat([r \in 1..Len(nt) |->
               [c \in 1..Len(nt[r]) |-> [row |-> r - 1, col |-> c - 1, il |-> nt[r][c]]]])

\* The body of the loops of AssignNames from the i-th cell on.
\* (CHOOSE v \in {e(g) : g \in {d}} : TRUE is e(d), with d computed once.)
RECURSIVE AssignCells(_, _, _, _, _, _)
AssignCells(sb, loads, cells, i, calls, vis) ==
    IF i > Len(cells)
    THEN [sb |-> sb, loads |-> loads, calls |-> calls, vis |-> vis, err |-> NoDiag]
    ELSE IF ~IsValid(cells[i].il)
    THEN AssignCells(sb, loads, cells, i + 1, calls, vis)
    ELSE CHOOSE v \in
             {IF g.err # NoDiag
              THEN [sb |-> g.sb, loads |-> g.loads, calls |-> Append(calls, g.call),
                    vis |-> vis, err |-> g.err]
              ELSE AssignCells(g.sb, g.loads, cells, i + 1, Append(calls, g.call),
                               Append(vis, [name |-> cells[i].il.name,
                                            line |-> cells[i].il.line, used |-> FALSE,
                                            expr |-> 0, node |-> g.node])) :
                 g \in {GetSubNode(sb, loads, cells[i].row, cells[i].col,
                                   cells[i].il.name, cells[i].il.line)}} : TRUE

\* AssignNames
AssignNames(sb, loads, nt) == AssignCells(sb, loads, Cells(nt), 1, <<>>, <<>>)

\* An identifier of a name table, at a line.
IL(name, line) == [null |-> FALSE, name |-> name, line |-> line]

\* The name tables: names that are valid, empty, '_' and that begin with '_'.
NameTables ==
    {<<<<IL(<<"a">>, 31), IL(<<"_">>, 31), IL(<<"b">>, 31)>>,
       <<IL(<<"_", "x">>, 32), IL(<<"c", "_">>, 32)>>>>,
     <<<<IL(<<"_">>, 31), IL(<<>>, 31)>>, <<IL(<<"_", "a">>, 32)>>>>,
     <<<<IL(<<>>, 31), IL(<<"a">>, 31)>>, <<IL(<<"b">>, 32)>>, <<IL(<<"_">>, 33), IL(<<"c">>, 33)>>>>}

SheetInit == WriterInit

\* ConvertSheetNode makes the SheetBlock of a sheet node at line 20 with
\* sprites of 2 by 2 pixels.
NewSheet(file, base, x_step, crop) ==
    /\ main_pc = "resolve"
    /\ sh_blk = NoNode
    /\ sp_call = NoNode
    /\ sh_blk' = [line |-> 20, file |-> file, x_base |-> base, y_base |-> base,
                  x_step |-> x_step, y_step |-> 2, x_offset |-> -1, y_offset |-> -2,
                  width |-> 2, height |-> 2, crop |-> crop, img_sheet |-> 0]
    /\ UNCHANGED <<sprite_image, sp_call, sh_loads, sh_calls, sh_assign, mvars, svars,
                   dvars, vvars, wvars, evars, nvars>>

\* bn->GetSubNode(row, col, name, line) on the sheet.
CallGetSubNode(row, col, name, line) ==
    /\ main_pc = "resolve"
    /\ sh_blk # NoNode
    /\ Len(sh_calls) < MaxSubNodes
    /\ \E g \in {GetSubNode(sh_blk, sh_loads, row, col, name, line)} :
           /\ sh_blk' = g.sb
           /\ sh_loads' = g.loads
           /\ sh_calls' = Append(sh_calls, g.call)
           /\ IF g.err # NoDiag THEN Fatal(g.err) ELSE UNCHANGED <<main_pc, exit_code, diag>>
    /\ UNCHANGED <<sprite_image, sp_call, sh_assign, root, cur_file, file_nodes,
                   resolved, opened, out_files, svars, dvars, vvars, wvars, evars, nvars>>

\* PrepareNamedValues reaches a sheet bound to a name table: AssignNames.
CallAssignNames(nt) ==
    /\ main_pc = "resolve"
    /\ sh_blk # NoNode
    /\ sh_assign = NoNode
    /\ \E g \in {AssignNames(sh_blk, sh_loads, nt)} :
           /\ sh_blk' = g.sb
           /\ sh_loads' = g.loads
           /\ sh_calls' = sh_calls \o g.calls
           /\ sh_assign' = [nt |-> nt, first |-> Len(sh_calls) + 1,
                            last |-> Len(sh_calls) + Len(g.calls), vis |-> g.vis,
                            returned |-> g.err = NoDiag]
           /\ IF g.err # NoDiag THEN Fatal(g.err) ELSE UNCHANGED <<main_pc, exit_code, diag>>
    /\ UNCHANGED <<sprite_image, sp_call, root, cur_file, file_nodes,
                   resolved, opened, out_files, svars, dvars, vvars, wvars, evars, nvars>>

SheetNext ==
    \/ \E file \in {"sheet.png", "gone.png"}, base \in {0, 1}, x_step \in {2, 3},
          crop \in BOOLEAN : NewSheet(file, base, x_step, crop)
    \/ \E row \in 0..1, col \in 0..1 : CallGetSubNode(row, col, <<"n">>, 30)
    \/ \E nt \in NameTables : CallAssignNames(nt)

SpecSheet == SheetInit /\ [][SheetNext]_vars

\* C16: whatever GetSubNode calls are made on a sheet, its image file is
\* loaded once, by the first call, and the later calls use the Image of the
\* first; a sheet that is never asked for a sprite does not load.
C16_LoadedOnce ==
    /\ sh_loads = (IF sh_calls = <<>> THEN 0 ELSE 1)
    /\ \A i \in 1..Len(sh_calls) : sh_calls[i].img = sh_calls[1].img
    /\ (sh_blk # NoNode) =>
           (sh_blk.img_sheet = (IF sh_calls = <<>> THEN 0 ELSE sh_calls[1].img))

\* Three sprites were taken from the sheet.
C16_Witness ==
    /\ Len(sh_calls) = 3
    /\ sh_loads = 1
    /\ main_pc = "resolve"

\* The valid cells of the table of the last AssignNames call, as <<row,
\* column>> counting every cell of the table from 0.
ValidCells ==
    {rc \in UNION {{<<r - 1, c - 1>> : c \in 1..Len(sh_assign.nt[r])} :
                      r \in 1..Len(sh_assign.nt)} :
        LET name == sh_assign.nt[rc[1] + 1][rc[2] + 1].name
        IN  name # <<>> /\ name[1] # "_"}

\* The place of a valid cell among the valid cells in row-major order.
RowMajorRank(rc) ==
    1 + Cardinality({q \in ValidCells : q[1] < rc[1] \/ (q[1] = rc[1] /\ q[2] < rc[2])})

\* C17: AssignNames calls GetSubNode once for every valid cell of the name
\* table, in row-major order, with the row and column of the cell counted
\* over all cells, and the sprite of the cell is cut from the rectangle
\* (x_base + x_step * col, y_base + y_step * row, width, height); a call
\* that fails is the last.
C17_AssignNames ==
    sh_assign # NoNode =>
        LET calls == SubSeq(sh_calls, sh_assign.first, sh_assign.last)
        IN  /\ Len(calls) <= Cardinality(ValidCells)
            /\ sh_assign.returned => Len(calls) = Cardinality(ValidCells)
            /\ sh_assign.returned => Len(sh_assign.vis) = Len(calls)
            /\ ~sh_assign.returned => (Len(calls) > 0 /\ Len(sh_assign.vis) = Len(calls) - 1)
            /\ \A i \in 1..Len(calls) :
                   \E rc \in ValidCells :
                       /\ RowMajorRank(rc) = i
                       /\ calls[i].row = rc[1]
                       /\ calls[i].col = rc[2]
                       /\ calls[i].name = sh_assign.nt[rc[1] + 1][rc[2] + 1].name
                       /\ calls[i].line = sh_assign.nt[rc[1] + 1][rc[2] + 1].line
                       /\ calls[i].rect # <<>> =>
                              calls[i].rect =
                                  <<sh_blk.x_base + (sh_blk.x_step * rc[2]),
                                    sh_blk.y_base + (sh_blk.y_step * rc[1]),
                                    sh_blk.width, sh_blk.height>>

\* The table with the skipped cells was assigned: a at (0, 0), b at (0, 2)
\* and c_ at (1, 1).
C17_Witness ==
    /\ sh_assign # NoNode
    /\ sh_assign.returned
    /\ Len(sh_assign.vis) = 3
    /\ sh_blk.x_base = 0
    /\ sh_calls[sh_assign.last].rect = <<2, 2, 2, 2>>
    /\ sh_calls[sh_assign.last - 1].rect = <<4, 0, 2, 2>>

----------------------------------------------------------------------------
(* SpecText: Strings::Write on sets of text nodes that have a default      *)
(* text, as Strings::CheckTranslations leaves them.                        *)

\* The text nodes of the model: a default text, and any of the other
\* languages.
TextNodes ==
    {[name  |-> n,
      lines |-> <<1, l2, l3>>,
      texts |-> <<d, IF l2 < 0 THEN "" ELSE "buy", IF l3 < 0 THEN "" ELSE "Yy">>] :
        n \in {"buy", "name"}, d \in {"X", "Yy", "long"}, l2 \in {-1, 2}, l3 \in {-1, 3}}

\* The sets of text nodes of a Strings: one or two nodes of different names.
TextSets ==
    {{t} : t \in TextNodes}
    \cup {{t, u} : t \in {x \in TextNodes : x.name = "buy"},
                   u \in {x \in TextNodes : x.name = "name"}}

\* The languages TextNode::Write stores, in the order it stores them:
\* the translations, then the default language.
WrittenLanguages(tn) ==
    SelectSeq([i \in 1..(LNG_COUNT - 1) |-> i + 1], LAMBDA i : tn.lines[i] >= 0) \o <<1>>

\* The bytes of one language block as TextNode::Write stores it.
LanguageBlockSize(tn, i) == 2 + (1 + StrSize(_languages[i]) + 1) + StrSize(tn.texts[i]) + 1

\* What a reader finds in the record that TextNode::Write appended to the
\* block before: the number of bytes appended, the value of the leading
\* length field, the value of the lang_size field of each language block,
\* and the outcome of the assertions.
TextRecord(before, w, tn) ==
    LET at    == Len(before.data)
        langs == WrittenLanguages(tn)
        start == [k \in 1..Len(langs) |->
                     at + 2 + 1 + StrSize(tn.name) + 1
                     + SumOver([j \in 1..Len(langs) |-> LanguageBlockSize(tn, langs[j])], 1, k - 1)]
    IN  [appended   |-> Len(w.fb.data) - at,
         length     |-> DecodeLE(w.fb.data, at, 2),
         lang_sizes |-> [k \in 1..Len(langs) |-> DecodeLE(w.fb.data, start[k], 2)],
         get_size   |-> TextNode_GetSize(tn),
         remaining  |-> w.length,
         asserts    |-> w.asserts]

TextInit == WriterInit

\* strings->Write(fw) on a fresh FileWriter.
CallStringsWrite(texts) ==
    /\ t_strs = <<>>
    /\ LET tns    == InOrder(texts)
           length == SumOver([i \in 1..Len(tns) |-> TextNode_GetSize(tns[i])], 1, Len(tns))
           fb0    == StartSave("TEXT", 1, length)
       IN  /\ t_strs' = tns
           /\ t_out' = [k \in 1..Len(tns) |->
                           CHOOSE r \in {TextRecord(b, TextNode_Write(b, tns[k]), tns[k]) :
                                            b \in {WriteTextNodes(fb0, SubSeq(tns, 1, k - 1), 1).fb}} : TRUE]
    /\ UNCHANGED <<wvars, evars, mvars, svars, dvars, vvars, ivars, uvars, cvars, pvars, bvars>>

TextNext == t_strs = <<>> /\ \E texts \in TextSets : CallStringsWrite(texts)

SpecText == TextInit /\ [][TextNext]_vars

\* C21: for every text node with a default text and any of the other
\* languages, the bytes TextNode::Write appends are GetSize() bytes, the
\* leading 16 bit length field holds that number, the number is
\* 2 + 1 + name length + 1 plus the lang_size fields of the language blocks
\* written, and the final length assertion holds.
C21_WrittenEqualsSizeAndLengthField ==
    \A k \in 1..Len(t_out) :
        LET r == t_out[k] IN
        /\ r.appended = r.get_size
        /\ r.appended = r.length
        /\ r.appended = 2 + 1 + StrSize(t_strs[k].name) + 1
                        + SumOver(r.lang_sizes, 1, Len(r.lang_sizes))
        /\ r.remaining = 0

\* The part of C21 that does not read the 16 bit fields: GetSize() bytes are
\* appended, they are the header and the language blocks written, and the
\* assertions of Write hold.
C21_WrittenEqualsSize ==
    \A k \in 1..Len(t_out) :
        LET r == t_out[k] IN
        /\ r.appended = r.get_size
        /\ r.appended = 2 + 1 + StrSize(t_strs[k].name) + 1
                        + SumOver([j \in 1..Len(WrittenLanguages(t_strs[k])) |->
                                      LanguageBlockSize(t_strs[k], WrittenLanguages(t_strs[k])[j])],
                                  1, Len(WrittenLanguages(t_strs[k])))
        /\ r.remaining = 0
        /\ r.asserts

\* A text node with a translation has been written after another one.
C21_Witness ==
    /\ Len(t_out) = 2
    /\ t_strs[2].lines[2] >= 0
    /\ Len(t_out[2].lang_sizes) >= 2

----------------------------------------------------------------------------
(* Claims on SpecBody.                                                     *)

\* PrepareNamedValues has just handled an unnamed expression value whose
\* evaluation gave no error.
UnnamedExpressionHandled ==
    /\ v_pc = "prepare"
    /\ v_field # NoNode
    /\ v_field.name = ""
    /\ v_field.expr # 0
    /\ exit_code # 1

\* C22: an unnamed expression value of a body that allows unnamed values is
\* evaluated with the node's symbol table and the literal is stored, with
\* the expression's line, as the next entry of the unnamed values; the
\* collection then goes on.
C22_UnnamedExpressionKept ==
    UnnamedExpressionHandled =>
        /\ main_pc = "resolve"
        /\ Len(v_unnamed) >= 1
        /\ LET vi == v_unnamed[Len(v_unnamed)]
               r  == Evaluate(v_heap, v_field.expr, v_node.symbols)
           IN  /\ vi.expr # 0
               /\ v_heap[vi.expr] = r.heap[r.res]
               /\ vi.line = v_field.line
               /\ vi.node = NoNode
               /\ ~vi.used

\* What C22 says of the value itself holds whenever the process goes on: the
\* literal of the evaluation is the next entry (its line is not determined).
C22_UnnamedExpressionEvaluated ==
    (UnnamedExpressionHandled /\ main_pc = "resolve") =>
        /\ Len(v_unnamed) >= 1
        /\ LET vi == v_unnamed[Len(v_unnamed)]
               r  == Evaluate(v_heap, v_field.expr, v_node.symbols)
           IN  /\ vi.expr # 0
               /\ v_heap[vi.expr] = r.heap[r.res]
               /\ vi.node = NoNode
               /\ ~vi.used

\* The values of the body, named and unnamed, as the builder leaves them.
BodyValues == v_unnamed \o v_vals

\* The warnings of the last VerifyUsage that carry this line.
WarningsAt(line) ==
    {w \in 1..Len(v_got.warnings) : v_got.warnings[w].lines = <<line>>}

\* C29: when the builder has extracted its fields and verifies usage, every
\* value no extraction consumed gets exactly one warning with its line,
\* every consumed value gets none, and the run goes on with its exit code
\* unchanged.
C29_UnusedValuesWarned ==
    (v_got # NoNode /\ v_got.op = "VerifyUsage" /\ v_got.called) =>
        /\ \A i \in 1..Len(BodyValues) :
               Cardinality(WarningsAt(BodyValues[i].line))
                   = IF BodyValues[i].used THEN 0 ELSE 1
        /\ Len(v_got.warnings)
               = Cardinality({i \in 1..Len(BodyValues) : ~BodyValues[i].used})
        /\ main_pc = "resolve"
        /\ exit_code = -1
        /\ diag = NoDiag

\* VerifyUsage ran on a body with a consumed field, a consumed unnamed node
\* and a field that was not asked for.
C29_Witness ==
    /\ v_got # NoNode
    /\ v_got.op = "VerifyUsage"
    /\ v_got.called
    /\ \E i \in 1..Len(v_vals) : v_vals[i].used
    /\ \E i \in 1..Len(v_vals) : ~v_vals[i].used
    /\ \E i \in 1..Len(v_unnamed) : v_unnamed[i].used
    /\ Len(v_got.warnings) = 1

----------------------------------------------------------------------------
(* SpecContainers: the builders of the nodes that take unnamed children.   *)
(* person_graphics and SHOP take recolour nodes, PRSG, ANIM and ANSP take  *)
(* person_graphics, frame_data and sprite nodes.  The node stands at line  *)
(* 10 and its i-th unnamed child at line 10 + i.                           *)

\* PersonGraphics::AddRecolour: the recolourings afterwards and the result.
AddRecolour_CountAll(recol, orig, replace) ==
    LET free == {i \in 1..3 : recol[i].orig >= COLOUR_COUNT /\ recol[i].replace = 0}
    IN  IF free = {} THEN [recol |-> recol, ok |-> FALSE]
        ELSE [recol |-> [recol EXCEPT ![Min(free)] = [orig |-> orig, replace |-> replace]],
              ok |-> TRUE]

AddRecolour(recol, orig, replace) ==
    IF orig >= COLOUR_COUNT \/ replace = 0 THEN [recol |-> recol, ok |-> TRUE]
    ELSE LET free == {i \in 1..3 : recol[i].orig >= COLOUR_COUNT}
         IN  IF free = {} THEN [recol |-> recol, ok |-> FALSE]
             ELSE [recol |-> [recol EXCEPT ![Min(free)] = [orig |-> orig, replace |-> replace]],
                   ok |-> TRUE]

\* The loop of ConvertPersonGraphicsNode over the unnamed values, from the
\* i-th on.
RECURSIVE AddRecolours(_, _, _)
AddRecolours(recol, kids, i) ==
    IF i > Len(kids) THEN [recol |-> recol, err |-> NoDiag]
    ELSE IF kids[i].class # "Recolouring"
    THEN [recol |-> recol, err |-> Diag("not a recolour node", kids[i].line, <<>>)]
    ELSE LET a == AddRecolour(recol, kids[i].orig, kids[i].replace)
         IN  IF ~a.ok
             THEN [recol |-> a.recol, err |-> Diag("recolouring cannot be stored", kids[i].line, <<>>)]
             ELSE AddRecolours(a.recol, kids, i + 1)

\* ConvertPersonGraphicsNode (person_type is 8)
ConvertPersonGraphicsNode(ng) ==
    LET r == AddRecolours(<<NoRecolour, NoRecolour, NoRecolour>>, ng.kids, 1)
    IN  [err |-> r.err, recol |-> r.recol]

\* The loop of ConvertSHOPNode over the unnamed values, from the i-th on.
RECURSIVE ShopRecolours(_, _, _, _)
ShopRecolours(recol, free_recolour, kids, i) ==
    IF i > Len(kids) THEN [recol |-> recol, err |-> NoDiag]
    ELSE IF kids[i].class # "Recolouring"
    THEN [recol |-> recol, err |-> Diag("not a recolour node", kids[i].line, <<>>)]
    ELSE IF free_recolour >= 3
    THEN [recol |-> recol, err |-> Diag("recolouring cannot be stored", kids[i].line, <<>>)]
    ELSE ShopRecolours([recol EXCEPT ![free_recolour + 1] =
                                         [orig |-> kids[i].orig, replace |-> kids[i].replace]],
                       free_recolour + 1, kids, i + 1)

\* ConvertSHOPNode, once its named fields are extracted.
ConvertSHOPNode(ng) ==
    LET r == ShopRecolours(<<NoRecolour, NoRecolour, NoRecolour>>, 0, ng.kids, 1)
    IN  [err |-> r.err, recol |-> r.recol]

\* The children of the model: recolour nodes as ConvertRecolourNode makes
\* them - usable, with an original that is no colour range, with an empty
\* replace set - and a node of another class.
ChildKinds ==
    {[class |-> "Recolouring", orig |-> 3, replace |-> 5],
     [class |-> "Recolouring", orig |-> COLOUR_COUNT, replace |-> 5],
     [class |-> "Recolouring", orig |-> 4, replace |-> 0],
     [class |-> "FrameData", orig |-> 0, replace |-> 0]}

\* The lists of children of a node at line 10.
ChildLists ==
    UNION {[1..n -> ChildKinds] : n \in 0..MaxRecolours}

\* n children of the kind a builder wants, but for the one at position
\* wrong (none if wrong = 0).
Kids(n, wanted, wrong) ==
    [i \in 1..n |-> IF i = wrong THEN "recolour" ELSE wanted]

\* What a reader finds in a written PRSG, ANIM or ANSP block: the count
\* field, the number of entries that follow it, the payload length the
\* header declares and the payload length.
Counted(name, w) ==
    LET at    == CASE name = "PRSG" -> 0 [] name = "ANIM" -> 3 [] name = "ANSP" -> 5
        width == IF name = "PRSG" THEN 1 ELSE 2
        entry == CASE name = "PRSG" -> 13 [] name = "ANIM" -> 6 [] name = "ANSP" -> 4
        rest  == Len(w.fb) - 12 - at - width
    IN  [count    |-> DecodeLE(w.fb, 12 + at, width),
         entries  |-> rest \div entry,
         partial  |-> rest % entry,
         declared |-> DecodeLE(w.fb, 8, 4),
         payload  |-> Len(w.fb) - 12,
         end_ok   |-> w.end_ok]

ContainersInit == WriterInit

\* ConvertNodeGroup hands a person_graphics or SHOP node to its builder.
ConvertRecoloured(name, kinds) ==
    /\ c_node = NoNode
    /\ LET ng == [name |-> name, line |-> 10,
                  kids |-> [i \in 1..Len(kinds) |->
                               [class |-> kinds[i].class, orig |-> kinds[i].orig,
                                replace |-> kinds[i].replace, line |-> 10 + i]]]
           r  == IF name = "SHOP" THEN ConvertSHOPNode(ng) ELSE ConvertPersonGraphicsNode(ng)
       IN  /\ c_node' = ng
           /\ c_out' = [err |-> r.err, recol |-> r.recol]
           /\ IF r.err # NoDiag THEN Fatal(r.err) ELSE UNCHANGED <<main_pc, exit_code, diag>>
    /\ UNCHANGED <<root, cur_file, file_nodes, resolved, opened, out_files,
                   wvars, evars, svars, dvars, vvars, ivars, tvars, uvars, pvars, bvars>>

\* ConvertNodeGroup hands a PRSG, ANIM or ANSP node with n children to its
\* builder, and the block it returns is written to a writer without blocks.
ConvertCounted(name, n, wrong) ==
    /\ c_node = NoNode
    /\ c_node' = [name |-> name, line |-> 10, nkids |-> n, wrong |-> wrong]
    /\ \E r \in {CASE name = "PRSG" ->
                        ConvertPRSGNode([line |-> 10, kids |-> Kids(n, "person_graphics", wrong)])
                   [] name = "ANIM" ->
                        ConvertANIMNode([line |-> 10, kids |-> Kids(n, "frame_data", wrong)])
                   [] name = "ANSP" ->
                        ConvertANSPNode([line |-> 10, kids |-> Kids(n, "sprite", wrong)])} :
           IF r.err # NoDiag
           THEN /\ Fatal(r.err)
                /\ c_out' = [err |-> r.err, written |-> NoNode]
           ELSE /\ \E w \in {GameBlock_Write(<<>>, r.blk)} :
                       c_out' = [err |-> NoDiag, written |-> Counted(name, w)]
                /\ UNCHANGED <<main_pc, exit_code, diag>>
    /\ UNCHANGED <<root, cur_file, file_nodes, resolved, opened, out_files,
                   wvars, evars, svars, dvars, vvars, ivars, tvars, uvars, pvars, bvars>>

\* The numbers of children of the model: a few, and the numbers around the
\* most a block takes.
KidCounts(name) ==
    (0..MaxKids) \cup (IF name = "PRSG" THEN {255 - 1, 255, 255 + 1}
                       ELSE {65535, 65535 + 1})

RecoloursNext ==
    c_node = NoNode /\ \E name \in {"person_graphics", "SHOP"}, kinds \in ChildLists :
        ConvertRecoloured(name, kinds)

SpecRecolours == ContainersInit /\ [][RecoloursNext]_vars

ContainersNext ==
    c_node = NoNode /\ \E name \in {"PRSG", "ANIM", "ANSP"} : \E n \in KidCounts(name) :
        \E wrong \in {0} \cup (1..(IF n <= MaxKids THEN n ELSE 0)) :
            ConvertCounted(name, n, wrong)

SpecContainers == ContainersInit /\ [][ContainersNext]_vars

----------------------------------------------------------------------------
(* Claims on SpecRecolours and SpecContainers.                              *)

\* A person_graphics or SHOP node whose children are all recolour nodes
\* has been handed to its builder.
RecolouredDone ==
    /\ c_node # NoNode
    /\ c_node.name \in {"person_graphics", "SHOP"}
    /\ \A i \in 1..Len(c_node.kids) : c_node.kids[i].class = "Recolouring"

\* The fatal error "recolouring cannot be stored" at this line.
CannotStoreAt(line) ==
    /\ c_out.err = Diag("recolouring cannot be stored", line, <<>>)
    /\ diag = c_out.err
    /\ main_pc = "exit"
    /\ exit_code = 1

\* The positions of the children of c_node that AddRecolour stores.
StoredKids ==
    {i \in 1..Len(c_node.kids) :
         c_node.kids[i].orig < COLOUR_COUNT /\ c_node.kids[i].replace # 0}

\* The k-th smallest number of a set of numbers.
RECURSIVE Nth(_, _)
Nth(S, k) == IF k = 1 THEN Min(S) ELSE Nth(S \ {Min(S)}, k - 1)

CountedDone ==
    /\ c_node # NoNode
    /\ c_node.name \in {"PRSG", "ANIM", "ANSP"}
    /\ c_node.wrong = 0

\* The most children a block takes.
MostKids == IF c_node.name = "PRSG" THEN 255 ELSE 65535

\* C24: a PRSG node takes at most 255 children and an ANIM or ANSP node at
\* most 65535, the next child is a fatal error at its line; the count
\* written in the block equals the number of children and of entries after
\* it, and the declared payload length is the length of the payload.
C24_CountFieldIsEntryCount ==
    CountedDone =>
        IF c_node.nkids > MostKids
        THEN /\ c_out.err = Diag("too many", c_node.line + MostKids + 1, <<>>)
             /\ diag = c_out.err
             /\ main_pc = "exit"
             /\ exit_code = 1
        ELSE /\ c_out.err = NoDiag
             /\ main_pc # "exit"
             /\ c_out.written.count = c_node.nkids
             /\ c_out.written.entries = c_node.nkids
             /\ c_out.written.partial = 0
             /\ c_out.written.declared = c_out.written.payload
             /\ c_out.written.end_ok

\* An ANSP block with 65535 frames has been written.
C24_Witness ==
    /\ CountedDone
    /\ c_node.name = "ANSP"
    /\ c_node.nkids = 65535
    /\ c_out.err = NoDiag
    /\ c_out.written.count = 65535

----------------------------------------------------------------------------
(* SpecMask: Image::GetPixel on an image with or without a mask overlay.   *)

\* No mask: Image::mask is nullptr.
NoMask == [name |-> "nullptr", width |-> 0, height |-> 0, data |-> <<>>]

\* The bit of a bitmap at column dx of row dy, for the bitmaps of the
\* model: a diamond, every bit set, the two left columns set.
MaskBit(shape, dx, dy) ==
    CASE shape = "diamond" ->
             IF (IF 2 * dx >= 63 THEN 2 * dx - 63 ELSE 63 - 2 * dx)
                + (IF 2 * dy >= 63 THEN 2 * dy - 63 ELSE 63 - 2 * dy) <= 64 THEN 1 ELSE 0
      [] shape = "full" -> 1
      [] shape = "left" -> IF dx < 2 THEN 1 ELSE 0

\* The bytes of an XBM bitmap of 64 by 64 bits: rows of 8 bytes, the
\* leftmost of the eight columns of a byte in its lowest bit.
XbmBits(shape) ==
    [i \in 1..(64 * 8) |->
        LET dy == (i - 1) \div 8
            c0 == ((i - 1) % 8) * 8
        IN  MaskBit(shape, c0, dy) + 2 * MaskBit(shape, c0 + 1, dy)
            + 4 * MaskBit(shape, c0 + 2, dy) + 8 * MaskBit(shape, c0 + 3, dy)
            + 16 * MaskBit(shape, c0 + 4, dy) + 32 * MaskBit(shape, c0 + 5, dy)
            + 64 * MaskBit(shape, c0 + 6, dy) + 128 * MaskBit(shape, c0 + 7, dy)]

\* _masks: the one mask, "voxel64" (its bits are those of mask64.xbm).
_masks(shape) == [name |-> "voxel64", width |-> 64, height |-> 64, data |-> XbmBits(shape)]

\* Image::Image: an image file with a mask, or none, at a position.
Image(imf, mask, x_pos, y_pos) ==
    [imf |-> imf, mask |-> mask,
     mask_xpos |-> IF mask = NoMask THEN 0 ELSE x_pos,
     mask_ypos |-> IF mask = NoMask THEN 0 ELSE y_pos]

\* int division of C++: towards zero.
CDiv(a, b) == IF a >= 0 THEN a \div b ELSE -((-a) \div b)

\* Image::IsMaskedOut: the results it can have.  The byte read is
\* data[off], with off as the code computes it; a read outside the array
\* of the mask is undefined: it ends the process or yields any bit.
IsMaskedOut(im, x, y) ==
    IF im.mask # NoMask
       /\ x >= im.mask_xpos /\ x < im.mask_xpos + im.mask.width
       /\ y >= im.mask_ypos /\ y < im.mask_ypos + im.mask.height
    THEN LET off1 == (im.mask_ypos - y) * ((im.mask.width + 7) \div 8)
             off  == im.mask_xpos - x
             at   == off1 + CDiv(off, 8)
         IN  IF at >= 0 /\ at < Len(im.mask.data)
             THEN {[crash |-> FALSE,
                    masked |-> (im.mask.data[at + 1] \div (2 ^ (off % 8))) % 2 = 0]}
             ELSE {[crash |-> TRUE, masked |-> FALSE]}
                  \cup {[crash |-> FALSE, masked |-> b] : b \in BOOLEAN}
    ELSE {[crash |-> FALSE, masked |-> FALSE]}

\* Image::GetPixel of an image with a mask: the results it can have.
Image_GetPixel(im, x, y) ==
    {[crash |-> m.crash,
      value |-> IF m.crash \/ m.masked THEN TRANSPARENT_INDEX ELSE GetPixel(im.imf, x, y)] :
        m \in IsMaskedOut(im, x, y)}

MaskInit == WriterInit

\* One call of GetPixel on an image, as IsEmpty and Encode make them.
CallGetPixel(im, x, y) ==
    /\ px_read = NoNode
    /\ \E r \in Image_GetPixel(im, x, y) :
           /\ px_read' = [im |-> im, x |-> x, y |-> y, crash |-> r.crash, value |-> r.value]
           /\ IF r.crash
              THEN /\ main_pc' = "exit"
                   /\ exit_code' = 139
                   /\ UNCHANGED diag
              ELSE UNCHANGED <<main_pc, exit_code, diag>>
    /\ UNCHANGED <<root, cur_file, file_nodes, resolved, opened, out_files,
                   wvars, evars, svars, dvars, vvars, ivars, tvars, uvars, cvars, bvars>>

\* The images of the model that are read through a mask.
MaskedFiles ==
    {Img(<<<<0, 0, 0, 0>>, <<0, 1, 0, 2>>, <<0, 0, 3, 0>>>>),
     Img(<<<<7, 8, 9, 7>>, <<1, 2, 3, 1>>, <<9, 9, 9, 9>>>>)}

\* The masks and their positions.
MaskedImages ==
    {Image(imf, NoMask, 0, 0) : imf \in MaskedFiles}
    \cup {Image(imf, _masks(shape), xp, yp) :
            imf \in MaskedFiles, shape \in {"diamond", "full", "left"},
            xp \in {-30, -1, 0, 2}, yp \in {-30, 0, 1}}

MaskNext ==
    px_read = NoNode /\ \E im \in MaskedImages :
        \E x \in 0..(im.imf.width - 1), y \in 0..(im.imf.height - 1) :
            CallGetPixel(im, x, y)

SpecMask == MaskInit /\ [][MaskNext]_vars

\* The bit of the mask of px_read.im at column dx of row dy.
BitOfMask(dx, dy) ==
    LET mask == px_read.im.mask
    IN  (mask.data[dy * ((mask.width + 7) \div 8) + (dx \div 8) + 1] \div (2 ^ (dx % 8))) % 2

\* The pixel of the image file at the position read.
OwnIndex == px_read.im.imf.rows[px_read.y + 1][px_read.x + 1]

\* The position read lies in the rectangle of the mask.
InMask ==
    LET im == px_read.im
    IN  /\ px_read.x >= im.mask_xpos /\ px_read.x < im.mask_xpos + im.mask.width
        /\ px_read.y >= im.mask_ypos /\ px_read.y < im.mask_ypos + im.mask.height

\* C25: with a mask at (mask_xpos, mask_ypos) a pixel reads as 0 when it
\* lies outside the rectangle of the mask or when the bit of the mask at
\* column x - mask_xpos of row y - mask_ypos is 0, and as its own palette
\* index otherwise; without a mask every pixel reads as its own index.
C25_MaskedPixel ==
    px_read # NoNode =>
        /\ ~px_read.crash
        /\ px_read.value =
               IF px_read.im.mask = NoMask THEN OwnIndex
               ELSE IF ~InMask THEN TRANSPARENT_INDEX
               ELSE IF BitOfMask(px_read.x - px_read.im.mask_xpos,
                                 px_read.y - px_read.im.mask_ypos) = 0
               THEN TRANSPARENT_INDEX
               ELSE OwnIndex

\* The part of C25 on images without a mask.
C25_NoMaskOwnIndex ==
    (px_read # NoNode /\ px_read.im.mask = NoMask) =>
        (~px_read.crash /\ px_read.value = OwnIndex)

\* Outside the rectangle of the mask a pixel reads as its own index.
C25_OutsideMaskOwnIndex ==
    (px_read # NoNode /\ px_read.im.mask # NoMask /\ ~InMask) =>
        (~px_read.crash /\ px_read.value = OwnIndex)

----------------------------------------------------------------------------
(* SpecPath: the calls of the path build window and the viewport on the    *)
(* PathBuildManager (path_build.cpp).  The world is not modelled: what     *)
(* GetPathAttachPoints and CanBuildPathFromEdge find in it, and whether a  *)
(* move of the tile cursor is possible, are inputs of the calls, so the    *)
(* position of the tile cursor, which only selects the voxels looked at,   *)
(* is not kept.  A manager is the record p of the fields of the object     *)
(* and ok, whether no assertion of ComputeArrowCursorPosition has failed.  *)

\* Bit k of the number v is set.
HasBit(v, k) == (v \div (2 ^ k)) % 2 = 1

\* ((0x11 << edge) & allowed_arrows) != 0, for an edge below EDGE_COUNT
AllowsArrow(allowed, edge) ==
    /\ edge < EDGE_COUNT
    /\ HasBit(allowed, edge) \/ HasBit(allowed, edge + 4)

\* ((1 << slope) & allowed_slopes) != 0, for a slope below TSL_COUNT_GENTLE
AllowsSlope(allowed, slope) == slope < TSL_COUNT_GENTLE /\ HasBit(allowed, slope)

\* PathBuildManager::ComputeArrowCursorPosition: its assertions on the
\* state and the arrow.
ComputeArrowCursorPosition(p) ==
    [p EXCEPT !.ok = /\ @
                     /\ p.state > PBS_WAIT_ARROW
                     /\ p.selected_arrow # INVALID_EDGE
                     /\ AllowsArrow(p.allowed_arrows, p.selected_arrow)]

\* PathBuildManager::ComputeWorldAdditions, called in PBS_WAIT_BUY
ComputeWorldAdditions(p) ==
    IF ~AllowsSlope(p.allowed_slopes, p.selected_slope) THEN p
    ELSE ComputeArrowCursorPosition(p)

\* The edge that is the only one in allowed_arrows, at the bottom or at
\* the top of the voxel; INVALID_EDGE if there is none.
OnlyArrow(allowed) ==
    IF \E e \in {EDGE_NE, EDGE_NW, EDGE_SE, EDGE_SW} : allowed = 2 ^ e \/ allowed = 16 * (2 ^ e)
    THEN CHOOSE e \in {EDGE_NE, EDGE_NW, EDGE_SE, EDGE_SW} :
             allowed = 2 ^ e \/ allowed = 16 * (2 ^ e)
    ELSE INVALID_EDGE

\* The slope that is the only one in allowed_slopes, TSL_INVALID if none.
OnlySlope(allowed) ==
    IF \E t \in {TSL_DOWN, TSL_FLAT, TSL_UP} : allowed = 2 ^ t
    THEN CHOOSE t \in {TSL_DOWN, TSL_FLAT, TSL_UP} : allowed = 2 ^ t
    ELSE TSL_INVALID

\* PathBuildManager::UpdateState.  vp: there is a viewport; attach: what
\* GetPathAttachPoints finds at the tile cursor; slopes: what
\* CanBuildPathFromEdge finds at the arrow cursor.
UpdateState(p, vp, attach, slopes) ==
    LET p1 == IF p.state = PBS_IDLE
              THEN [p EXCEPT !.selected_arrow = INVALID_EDGE, !.selected_slope = TSL_INVALID]
              ELSE p
        p2 == IF p1.state # PBS_WAIT_ARROW THEN p1
              ELSE LET q == [p1 EXCEPT !.allowed_arrows = attach]
                   IN  IF q.selected_arrow # INVALID_EDGE
                          /\ AllowsArrow(attach, q.selected_arrow)
                       THEN [q EXCEPT !.state = PBS_WAIT_SLOPE]
                       ELSE IF OnlyArrow(attach) # INVALID_EDGE
                       THEN [q EXCEPT !.selected_arrow = OnlyArrow(attach),
                                      !.state = PBS_WAIT_SLOPE]
                       ELSE q
        p3 == IF vp /\ p2.state > PBS_WAIT_ARROW THEN ComputeArrowCursorPosition(p2) ELSE p2
        p4 == IF p3.state # PBS_WAIT_SLOPE THEN p3
              ELSE LET q == [ComputeArrowCursorPosition(p3) EXCEPT !.allowed_slopes = slopes]
                   IN  IF q.selected_slope # TSL_INVALID /\ AllowsSlope(slopes, q.selected_slope)
                       THEN [q EXCEPT !.state = PBS_WAIT_BUY]
                       ELSE IF OnlySlope(slopes) # TSL_INVALID
                       THEN [q EXCEPT !.selected_slope = OnlySlope(slopes),
                                      !.state = PBS_WAIT_BUY]
                       ELSE q
    IN  IF vp /\ p4.state = PBS_WAIT_BUY THEN ComputeWorldAdditions(p4) ELSE p4

\* PathBuildManager::Reset
Reset(p, vp) ==
    UpdateState([p EXCEPT !.selected_arrow = INVALID_EDGE, !.selected_slope = TSL_INVALID,
                          !.state = IF @ # PBS_IDLE THEN PBS_WAIT_VOXEL ELSE @],
                vp, 0, 0)

\* PathBuildManager::SetPathGuiState
SetPathGuiState(p, gui_opened, vp) ==
    UpdateState([p EXCEPT !.state = IF gui_opened THEN PBS_WAIT_VOXEL ELSE PBS_IDLE], vp, 0, 0)

\* PathBuildManager::TileClicked on a voxel where GetPathAttachPoints
\* finds dirs.
TileClicked(p, dirs, vp, slopes) ==
    IF p.state = PBS_IDLE \/ dirs = 0 THEN p
    ELSE UpdateState([p EXCEPT !.allowed_arrows = dirs, !.state = PBS_WAIT_ARROW],
                     vp, dirs, slopes)

\* A SelectArrow that takes any edge.
SelectArrow_Any(p, direction, vp, slopes) ==
    IF p.state < PBS_WAIT_ARROW \/ direction >= INVALID_EDGE THEN p
    ELSE UpdateState([p EXCEPT !.selected_arrow = direction, !.state = PBS_WAIT_SLOPE],
                     vp, 0, slopes)

\* PathBuildManager::SelectArrow
SelectArrow(p, direction, vp, slopes) ==
    IF p.state < PBS_WAIT_ARROW \/ direction >= INVALID_EDGE THEN p
    ELSE IF ~AllowsArrow(p.allowed_arrows, direction) THEN p
    ELSE UpdateState([p EXCEPT !.selected_arrow = direction, !.state = PBS_WAIT_SLOPE],
                     vp, 0, slopes)

\* PathBuildManager::SelectSlope
SelectSlope(p, slope, vp, slopes) ==
    IF p.state < PBS_WAIT_SLOPE \/ slope >= TSL_COUNT_GENTLE THEN p
    ELSE IF ~AllowsSlope(p.allowed_slopes, slope) THEN p
    ELSE UpdateState([p EXCEPT !.selected_slope = slope, !.state = PBS_WAIT_SLOPE],
                     vp, 0, slopes)

\* PathBuildManager::MoveCursor; moved: one of its TryMove calls finds a
\* voxel to move to, sets PBS_WAIT_ARROW and updates the state.
MoveCursor(p, edge, moved, vp, attach, slopes) ==
    IF p.state <= PBS_WAIT_ARROW \/ edge = INVALID_EDGE THEN p
    ELSE IF ~moved THEN p
    ELSE UpdateState([p EXCEPT !.state = PBS_WAIT_ARROW], vp, attach, slopes)

\* PathBuildManager::SelectMovement; surface: the voxel of the tile cursor
\* has a path or ground that is not steep.
SelectMovement(p, move_forward, surface, moved, vp, attach, slopes) ==
    IF p.state <= PBS_WAIT_ARROW THEN p
    ELSE IF ~surface THEN p
    ELSE MoveCursor(p, IF move_forward THEN p.selected_arrow ELSE (p.selected_arrow + 2) % 4,
                    moved, vp, attach, slopes)

\* PathBuildManager::SelectBuyRemove; surface: for buying as in
\* SelectMovement, for removing the voxel of the tile cursor has a path.
\* What the world answers after the move is the same in both UpdateState
\* calls of a removal.
SelectBuyRemove(p, buying, surface, moved, vp, attach, slopes) ==
    IF buying
    THEN IF p.state # PBS_WAIT_BUY THEN p
         ELSE SelectMovement(p, TRUE, surface, moved, vp, attach, slopes)
    ELSE IF p.state <= PBS_WAIT_VOXEL \/ ~surface THEN p
         ELSE UpdateState(MoveCursor(p, (p.selected_arrow + 2) % 4, moved, vp, attach, slopes),
                          vp, attach, slopes)

\* The edges GetPathAttachPoints may find: none, one at the bottom or at
\* the top of the voxel, several.
AttachPoints == {0, 1, 2, 4, 8, 32, 128, 10}

\* The slopes CanBuildPathFromEdge may find.
BuildSlopes == {0, 1, 2, 4, 7}

\* The manager, as a record.
Manager ==
    [state |-> pb_state, selected_arrow |-> selected_arrow, selected_slope |-> selected_slope,
     allowed_arrows |-> allowed_arrows, allowed_slopes |-> allowed_slopes, ok |-> pb_asserts]

\* A call has left the manager as p.
Becomes(p) ==
    /\ pb_state' = p.state
    /\ selected_arrow' = p.selected_arrow
    /\ selected_slope' = p.selected_slope
    /\ allowed_arrows' = p.allowed_arrows
    /\ allowed_slopes' = p.allowed_slopes
    /\ pb_asserts' = p.ok
    /\ UNCHANGED <<wvars, evars, mvars, svars, dvars, vvars, ivars, tvars, uvars, cvars, pvars>>

PathInit == WriterInit

PathNext ==
    \/ pb_asserts /\ \E vp \in BOOLEAN : Becomes(Reset(Manager, vp))
    \/ pb_asserts /\ \E gui_opened \in BOOLEAN, vp \in BOOLEAN :
           Becomes(SetPathGuiState(Manager, gui_opened, vp))
    \/ pb_asserts /\ \E dirs \in AttachPoints, vp \in BOOLEAN, slopes \in BuildSlopes :
           Becomes(TileClicked(Manager, dirs, vp, slopes))
    \/ pb_asserts /\ \E direction \in {EDGE_NE, EDGE_SE, EDGE_SW, EDGE_NW, INVALID_EDGE},
                       vp \in BOOLEAN, slopes \in BuildSlopes :
           Becomes(SelectArrow(Manager, direction, vp, slopes))
    \/ pb_asserts /\ \E slope \in {TSL_DOWN, TSL_FLAT, TSL_UP, TSL_COUNT_GENTLE},
                       vp \in BOOLEAN, slopes \in BuildSlopes :
           Becomes(SelectSlope(Manager, slope, vp, slopes))
    \/ pb_asserts /\ \E move_forward \in BOOLEAN, surface \in BOOLEAN, moved \in BOOLEAN,
                       vp \in BOOLEAN, attach \in AttachPoints, slopes \in BuildSlopes :
           Becomes(SelectMovement(Manager, move_forward, surface, moved, vp, attach, slopes))
    \/ pb_asserts /\ \E buying \in BOOLEAN, surface \in BOOLEAN, moved \in BOOLEAN,
                       vp \in BOOLEAN, attach \in AttachPoints, slopes \in BuildSlopes :
           Becomes(SelectBuyRemove(Manager, buying, surface, moved, vp, attach, slopes))

SpecPath == PathInit /\ [][PathNext]_vars

\* C30: whenever the state is PBS_WAIT_SLOPE or PBS_WAIT_BUY, selected_arrow
\* is one of the four edges and allowed_arrows has that edge at the bottom
\* or at the top of the voxel; no assertion of ComputeArrowCursorPosition
\* on the state and the arrow has failed.
C30_ArrowAllowedWhileBuilding ==
    /\ pb_asserts
    /\ pb_state \in {PBS_WAIT_SLOPE, PBS_WAIT_BUY} =>
           /\ selected_arrow \in {EDGE_NE, EDGE_SE, EDGE_SW, EDGE_NW}
           /\ HasBit(allowed_arrows, selected_arrow) \/ HasBit(allowed_arrows, selected_arrow + 4)

\* The manager waits for the buy with the north-west arrow chosen by the
\* user among two edges and the slope up chosen among three.
C30_Witness ==
    /\ pb_state = PBS_WAIT_BUY
    /\ selected_arrow = EDGE_NW
    /\ allowed_arrows = 10
    /\ selected_slope = TSL_UP
    /\ allowed_slopes = 7
    /\ pb_asserts


====
